---- MODULE Spec2Model ----
(***************************************************************************)
(* Model of telegram-bot/index.js: the command router with its cooldown    *)
(* and duplicate guard, the gen input parser, the BIN lookup with provider *)
(* fallback, the cedula (registry) lookup with its retry loop, and the gen *)
(* handler.                                                                *)
(*                                                                         *)
(* Each component has its own group of variables and its own               *)
(* specification; a specification holds the other groups at their initial  *)
(* values.                                                                 *)
(***************************************************************************)
EXTENDS Integers, Naturals, Sequences, FiniteSets, TLC

VARIABLES
    \* ---- router (bot.use middleware, bot.on('text') middleware, timers)
    now,                 \* Date.now(), in ms
    userStates,          \* Map userId -> lastCommandTime
    processingCommands,  \* Set of command keys
    timers,              \* pending setTimeout callbacks of the slash middleware
    events,              \* inbound text events, in arrival order
    admitted,            \* history: userId -> the admission timestamps, in order
    \* ---- parseGenInput
    pIn,                 \* the input string, a sequence of characters
    pOut,                \* the returned {bin, month, year, cvv}
    pPc,                 \* "ready" | "done"
    \* ---- lookupBin
    lbPc,                \* "fetch1" | "fetch2" | "done"
    lbCalls,             \* the providers requested, in order
    lbResp1,             \* what the primary provider answered
    lbResp2,             \* what the secondary provider answered
    lbResult,            \* the returned value: null or <<info>>
    \* ---- cedula handler
    cdPc,                \* "start" | "fetch" | "backoff" | "classify" | "done"
    cdArg,               \* getCommandArgs(ctx), a sequence of characters
    cdAttempt,           \* the loop variable attempt
    cdAfter,             \* where the backoff in progress continues
    cdResp,              \* the variable resp: the last response received
    cdFirst,             \* history: how the first request ended
    cdLog,               \* history: requests and backoff waits, in order
    cdReplies,           \* the replies sent, in order
    \* ---- gen and bin handlers
    gPc,                 \* "start" | "lookup" | "done"
    gCmd,                \* "gen" | "bin"
    gForm,               \* "slash" | "dot"
    gText,               \* ctx.message.text, a sequence of characters
    gValid,              \* history: the specification passed validation
    gDraws,              \* history: the random choices of the generateCard calls
    gCards,              \* the array cards
    gHistory,            \* userData.history of the sender, as persisted
    gReplies,            \* the replies sent, in order
    \* ---- the persisted record of one user, a mail and a gen command
    stStore,             \* the user's data file: null (no file) or <<record>>
    mPc,                 \* mail: "start" | "replying" | "generating" | "editing" | "done"
    mData,               \* mail: the variable userData
    hPc,                 \* gen: "start" | "lookup" | "replying" | "done"
    hBin,                \* gen: the bin of the command
    stLog,               \* history: the loads and saves of the file, in order
    \* ---- the favorites of one user, agregarbin and eliminarbin commands
    fvFile,              \* the user's data file: null (no file) or <<record>>
    fvPc,                \* "ready" while commands are served
    fvCmd,               \* history: the last command handled
    fvArgs,              \* history: the variable args of the last command
    fvBefore,            \* history: the favorites the last command loaded
    fvReply,             \* the reply of the last command
    fvCount              \* history: the number of commands handled

routerVars == <<now, userStates, processingCommands, timers, events, admitted>>
parseVars == <<pIn, pOut, pPc>>
lookupVars == <<lbPc, lbCalls, lbResp1, lbResp2, lbResult>>
cedulaVars == <<cdPc, cdArg, cdAttempt, cdAfter, cdResp, cdFirst, cdLog, cdReplies>>
genVars == <<gPc, gCmd, gForm, gText, gValid, gDraws, gCards, gHistory, gReplies>>

storeVars == <<stStore, mPc, mData, hPc, hBin, stLog>>
favVars == <<fvFile, fvPc, fvCmd, fvArgs, fvBefore, fvReply, fvCount>>

vars == <<routerVars, parseVars, lookupVars, cedulaVars, genVars, storeVars, favVars>>

\* What the actions of one component leave alone.
outsideRouter == <<parseVars, lookupVars, cedulaVars, genVars, storeVars, favVars>>
outsideParse == <<routerVars, lookupVars, cedulaVars, genVars, storeVars, favVars>>
outsideLookup == <<routerVars, parseVars, cedulaVars, storeVars, favVars>>
outsideCedula == <<routerVars, parseVars, lookupVars, genVars, storeVars, favVars>>
outsideGen == <<routerVars, parseVars, cedulaVars, storeVars, favVars>>
outsideStore == <<routerVars, parseVars, lookupVars, cedulaVars, genVars, favVars>>
outsideFav == <<routerVars, parseVars, lookupVars, cedulaVars, genVars, storeVars>>

-----------------------------------------------------------------------------
(* Bounds of the model *)

Users == {"u1", "u2"}
MsgIds == {1, 2}
Forms == {"slash", "dot"}
\* The text of a message is fixed: every delivery of message m of user u
\* carries the same command.
cmdOf(u, m) == IF m = 1 THEN "gen" ELSE IF u = "u1" THEN "cedula" ELSE "agregarbin"

MaxEvents == 2
TickMs == 1000
StartTime == 1000

-----------------------------------------------------------------------------
(* Program constants *)

COOLDOWN_PERIOD == 2000
RETENTION_MS == 60000

-----------------------------------------------------------------------------
(* Router *)

\* const commandKey = `${userId}_${messageId}_slash`
commandKey(userId, messageId) == <<userId, messageId, "slash">>

isCommandAllowed_StampsOnDeny(us, userId, t) ==
    [allowed |-> userId \notin DOMAIN us \/ us[userId] = 0 \/ (t - us[userId]) >= COOLDOWN_PERIOD,
     userStates |-> [x \in (DOMAIN us) \cup {userId} |-> IF x = userId THEN t ELSE us[x]]]

isCommandAllowed_NoWindow(us, userId, t) ==
    [allowed |-> TRUE, userStates |-> [x \in (DOMAIN us) \cup {userId} |-> IF x = userId THEN t ELSE us[x]]]

\* isCommandAllowed: the result and the map after the call.
\* !lastCommandTime holds for a missing entry (undefined) and for 0.
isCommandAllowed(us, userId, t) ==
    IF userId \notin DOMAIN us \/ us[userId] = 0 \/ (t - us[userId]) >= COOLDOWN_PERIOD
    THEN [allowed |-> TRUE,
          userStates |-> [x \in (DOMAIN us) \cup {userId} |-> IF x = userId THEN t ELSE us[x]]]
    ELSE [allowed |-> FALSE, userStates |-> us]

\* Which handler an admitted event reaches.
\*  slash: bot.command(<c>) registered by registerCommand.
\*  dot:   handleDotCommand's switch; on `return false` (no case for the
\*         command) the text middleware calls next() and bot.hears(/^\.c\b/i)
\*         runs the registered handler.
DotCases == {"clear", "limpar", "gen", "bin", "start", "ajuda", "help", "favoritos",
             "historial", "agregarbin", "eliminarbin", "mail", "check", "ip"}

\* The commands registerCommand is called for, lines 541-1201.
RegisteredCommands == {"start", "help", "ajuda", "gen", "bin", "favoritos", "historial",
                       "clear", "limpar", "cedula", "placa", "mail", "check", "ip"}

\* <<"none", cmd>>: the chain of middlewares ends without a handler.
handlerFor(form, cmd) ==
    IF form = "dot" /\ cmd \in DotCases THEN <<"handleDotCommand", cmd>>
    ELSE IF cmd \in RegisteredCommands THEN <<"registered", cmd>>
    ELSE <<"none", cmd>>

\* What a handler that ran to completion did: lookups started (lookupBin or
\* the registry request loop), writes of the user's record (saveUserData),
\* replies sent.  The first record of each set is the validation-error path.
handlerEffects(h) ==
    CASE h = <<"registered", "gen">> ->
            {[calls |-> 0, writes |-> 0, replies |-> 1], [calls |-> 1, writes |-> 1, replies |-> 1]}
      [] h = <<"handleDotCommand", "gen">> ->
            {[calls |-> 0, writes |-> 0, replies |-> 1], [calls |-> 0, writes |-> 1, replies |-> 1]}
      [] h = <<"registered", "cedula">> ->
            {[calls |-> 0, writes |-> 0, replies |-> 1], [calls |-> 1, writes |-> 0, replies |-> 1]}
      [] h = <<"handleDotCommand", "agregarbin">> ->
            {[calls |-> 0, writes |-> 0, replies |-> 1], [calls |-> 0, writes |-> 1, replies |-> 1]}
      [] h[1] = "none" -> {[calls |-> 0, writes |-> 0, replies |-> 0]}
      [] OTHER -> {[calls |-> 0, writes |-> 0, replies |-> 1]}

isDuplicate_Never(key, inFlight) == FALSE

\* Line 67: processingCommands.has(commandKey)
isDuplicate(key, inFlight) == key \in inFlight

\* Line 61: the first middleware guards texts that start with '/'; every
\* other update goes to next() unchecked (line 91).
useMiddlewareChecks(form) == form = "slash"

textMiddlewareChecks_Always(form) == TRUE

\* Line 488: the text middleware guards texts that start with '.'; every
\* other text goes to next() unchecked (line 506).
textMiddlewareChecks(form) == form = "dot"

\* The cooldown check a middleware makes, or does not make, for a text of
\* this form at time t: the result, the map after it and the calls made.
middlewareCheck(guards, us, userId, t) ==
    IF guards
    THEN LET r == isCommandAllowed(us, userId, t)
         IN  [allowed |-> r.allowed, userStates |-> r.userStates, checks |-> 1]
    ELSE [allowed |-> TRUE, userStates |-> us, checks |-> 0]

Admit(u, t) == [admitted EXCEPT ![u] = Append(@, t)]

\* history: a slash-form delivery of (u, m) arrives while an earlier delivery
\* of the same message is being handled or is within its retention window.
IsRedelivery(u, m) ==
    \E i \in 1..Len(events) :
        /\ events[i].form = "slash" /\ events[i].user = u /\ events[i].msg = m
        /\ \/ events[i].pc = "handling"
           \/ \E t \in timers : t.ev = i /\ now < t.due

NewEvent(u, m, f, c) ==
    [user |-> u, msg |-> m, form |-> f, cmd |-> c,
     pc |-> "new", replies |-> 0, handler |-> <<"none", c>>,
     calls |-> 0, writes |-> 0,
     \* history: the calls of isCommandAllowed made for the event
     checks |-> 0,
     \* history: the event arrived less than COOLDOWN_PERIOD after an
     \* admission of the same user
     inWindow |-> \E k \in 1..Len(admitted[u]) : now - admitted[u][k] < COOLDOWN_PERIOD,
     \* history: see IsRedelivery
     dup |-> f = "slash" /\ IsRedelivery(u, m)]

DeliverSlash_MarkFirst(u, m, c) ==
    LET key == commandKey(u, m)
        r == isCommandAllowed(userStates, u, now)
        e == NewEvent(u, m, "slash", c)
    IN  /\ Len(events) < MaxEvents
        /\ IF key \in processingCommands
           THEN /\ events' = Append(events, [e EXCEPT !.pc = "dropped"])
                /\ UNCHANGED <<userStates, processingCommands, admitted>>
           ELSE /\ processingCommands' = processingCommands \cup {key}
                /\ IF ~r.allowed
                   THEN /\ events' = Append(events, [e EXCEPT !.pc = "denied", !.replies = 1])
                        /\ userStates' = r.userStates
                        /\ UNCHANGED admitted
                   ELSE /\ userStates' = r.userStates
                        /\ admitted' = Admit(u, now)
                        /\ events' = Append(events, [e EXCEPT !.pc = "handling",
                                                              !.handler = handlerFor("slash", c)])
        /\ UNCHANGED <<now, timers>>
        /\ UNCHANGED outsideRouter

DeliverSlash_NoMark(u, m, c) ==
    LET key == commandKey(u, m)
        r == isCommandAllowed(userStates, u, now)
        e == NewEvent(u, m, "slash", c)
    IN  /\ Len(events) < MaxEvents
        /\ IF key \in processingCommands
           THEN /\ events' = Append(events, [e EXCEPT !.pc = "dropped"])
                /\ UNCHANGED <<userStates, admitted>>
           ELSE IF ~r.allowed
           THEN /\ events' = Append(events, [e EXCEPT !.pc = "denied", !.replies = 1])
                /\ userStates' = r.userStates
                /\ UNCHANGED admitted
           ELSE /\ userStates' = r.userStates
                /\ admitted' = Admit(u, now)
                /\ events' = Append(events, [e EXCEPT !.pc = "handling",
                                                      !.handler = handlerFor("slash", c)])
        /\ UNCHANGED <<now, timers, processingCommands>>
        /\ UNCHANGED outsideRouter

DeliverSlash_CheckFirst(u, m, c) ==
    LET key == commandKey(u, m)
        r == isCommandAllowed(userStates, u, now)
        t == middlewareCheck(textMiddlewareChecks("slash"), r.userStates, u, now)
        e == NewEvent(u, m, "slash", c)
    IN  /\ Len(events) < MaxEvents
        /\ IF key \in processingCommands
           THEN /\ events' = Append(events, [e EXCEPT !.pc = "dropped"])
                /\ userStates' = r.userStates
                /\ UNCHANGED <<processingCommands, admitted, timers>>
           ELSE IF ~r.allowed
           THEN /\ events' = Append(events, [e EXCEPT !.pc = "denied", !.replies = 1,
                                                      !.checks = 1])
                /\ userStates' = r.userStates
                /\ UNCHANGED <<processingCommands, admitted, timers>>
           ELSE /\ userStates' = t.userStates
                /\ processingCommands' = processingCommands \cup {key}
                /\ admitted' = Admit(u, now)
                /\ IF t.allowed
                   THEN /\ events' = Append(events, [e EXCEPT !.pc = "handling",
                                                              !.checks = 1 + t.checks,
                                                              !.handler = handlerFor("slash", c)])
                        /\ UNCHANGED timers
                   ELSE \* the text middleware replied and returned: next() of
                        /\ events' = Append(events, [e EXCEPT !.pc = "denied", !.replies = 1,
                                                              !.checks = 1 + t.checks])
                        /\ timers' = timers \cup {[key |-> key, due |-> now + RETENTION_MS,
                                                    ev |-> Len(events) + 1]}
        /\ UNCHANGED now
        /\ UNCHANGED outsideRouter

\* bot.use middleware, lines 60-93, for a text starting with '/': up to the
\* await of next(), which runs the text middleware's else branch and then
\* the command's handler up to its first await.
DeliverSlash(u, m, c) ==
    LET key == commandKey(u, m)
        r == isCommandAllowed(userStates, u, now)
        t == middlewareCheck(textMiddlewareChecks("slash"), r.userStates, u, now)
        e == NewEvent(u, m, "slash", c)
    IN  /\ Len(events) < MaxEvents
        /\ IF isDuplicate(key, processingCommands)
           THEN /\ events' = Append(events, [e EXCEPT !.pc = "dropped"])
                /\ UNCHANGED <<userStates, processingCommands, admitted, timers>>
           ELSE IF ~r.allowed
           THEN /\ events' = Append(events, [e EXCEPT !.pc = "denied", !.replies = 1,
                                                      !.checks = 1])
                /\ userStates' = r.userStates
                /\ UNCHANGED <<processingCommands, admitted, timers>>
           ELSE /\ userStates' = t.userStates
                /\ processingCommands' = processingCommands \cup {key}
                /\ admitted' = Admit(u, now)
                /\ IF t.allowed
                   THEN /\ events' = Append(events, [e EXCEPT !.pc = "handling",
                                                              !.checks = 1 + t.checks,
                                                              !.handler = handlerFor("slash", c)])
                        /\ UNCHANGED timers
                   ELSE \* the text middleware replied and returned: next() of
                        \* the first middleware settled, its finally block runs
                        /\ events' = Append(events, [e EXCEPT !.pc = "denied", !.replies = 1,
                                                              !.checks = 1 + t.checks])
                        /\ timers' = timers \cup {[key |-> key, due |-> now + RETENTION_MS,
                                                    ev |-> Len(events) + 1]}
        /\ UNCHANGED now
        /\ UNCHANGED outsideRouter

DeliverDot_NoReturn(u, m, c) ==
    LET r == isCommandAllowed(userStates, u, now)
        e == NewEvent(u, m, "dot", c)
    IN  /\ Len(events) < MaxEvents
        /\ events' = Append(events, [e EXCEPT !.pc = "handling",
                                              !.replies = IF r.allowed THEN 0 ELSE 1,
                                              !.handler = handlerFor("dot", c)])
        /\ userStates' = r.userStates
        /\ admitted' = IF r.allowed THEN Admit(u, now) ELSE admitted
        /\ UNCHANGED <<now, timers, processingCommands>>
        /\ UNCHANGED outsideRouter

\* bot.on('text') middleware, lines 486-511, for a text starting with '.':
\* the first middleware only calls next() for it.
DeliverDot(u, m, c) ==
    LET f == middlewareCheck(useMiddlewareChecks("dot"), userStates, u, now)
        r == middlewareCheck(textMiddlewareChecks("dot"), f.userStates, u, now)
        e == NewEvent(u, m, "dot", c)
    IN  /\ Len(events) < MaxEvents
        /\ IF ~f.allowed
           THEN /\ events' = Append(events, [e EXCEPT !.pc = "denied", !.replies = 1,
                                                      !.checks = f.checks])
                /\ userStates' = f.userStates
                /\ UNCHANGED admitted
           ELSE IF ~r.allowed
           THEN /\ events' = Append(events, [e EXCEPT !.pc = "denied", !.replies = 1,
                                                      !.checks = f.checks + r.checks])
                /\ userStates' = r.userStates
                /\ admitted' = IF f.checks = 1 THEN Admit(u, now) ELSE admitted
           ELSE /\ userStates' = r.userStates
                /\ admitted' = IF f.checks + r.checks > 0 THEN Admit(u, now) ELSE admitted
                /\ events' = Append(events, [e EXCEPT !.pc = "handling",
                                                      !.checks = f.checks + r.checks,
                                                      !.handler = handlerFor("dot", c)])
        /\ UNCHANGED <<now, timers, processingCommands>>
        /\ UNCHANGED outsideRouter

\* The handler of event i completes.  For the slash form the finally block
\* (lines 84-89) schedules the removal of the key.
HandlerReturns(i) ==
    /\ events[i].pc = "handling"
    /\ \E fx \in handlerEffects(events[i].handler) :
          events' = [events EXCEPT ![i].pc = "done",
                                   ![i].calls = fx.calls,
                                   ![i].writes = fx.writes,
                                   ![i].replies = @ + fx.replies]
    /\ timers' = IF events[i].form = "slash"
                 THEN timers \cup {[key |-> commandKey(events[i].user, events[i].msg),
                                    due |-> now + RETENTION_MS, ev |-> i]}
                 ELSE timers
    /\ UNCHANGED <<now, userStates, processingCommands, admitted>>
    /\ UNCHANGED outsideRouter

HandlerThrows_RemovesKey(i) ==
    /\ events[i].pc = "handling"
    /\ events[i].handler[1] # "none"
    /\ events' = [events EXCEPT ![i].pc = "failed"]
    /\ processingCommands' = IF events[i].form = "slash"
                             THEN processingCommands \ {commandKey(events[i].user, events[i].msg)}
                             ELSE processingCommands
    /\ UNCHANGED <<now, userStates, timers, admitted>>
    /\ UNCHANGED outsideRouter

\* The handler of event i rejects.  In both forms the handler runs inside
\* the try of the text middleware (handleDotCommand or next(), lines
\* 487-507), whose catch (lines 508-510) only logs: nothing is rethrown, so
\* bot.catch (lines 1249-1254) is not reached and no reply is sent.  For the
\* slash form the finally block of the first middleware then runs.
HandlerThrows(i) ==
    /\ events[i].pc = "handling"
    /\ events[i].handler[1] # "none"
    /\ events' = [events EXCEPT ![i].pc = "failed"]
    /\ timers' = IF events[i].form = "slash"
                 THEN timers \cup {[key |-> commandKey(events[i].user, events[i].msg),
                                    due |-> now + RETENTION_MS, ev |-> i]}
                 ELSE timers
    /\ UNCHANGED <<now, userStates, processingCommands, admitted>>
    /\ UNCHANGED outsideRouter

\* setTimeout callback of line 86-88.
TimerFires(t) ==
    /\ t \in timers
    /\ now >= t.due
    /\ processingCommands' = processingCommands \ {t.key}
    /\ timers' = timers \ {t}
    /\ UNCHANGED <<now, userStates, events, admitted>>
    /\ UNCHANGED outsideRouter

\* Time passes, in steps of TickMs, until one cooldown period after the
\* start; later instants are reached through TickToTimer.
Tick ==
    /\ now < StartTime + COOLDOWN_PERIOD
    /\ now' = now + TickMs
    /\ UNCHANGED <<userStates, processingCommands, timers, events, admitted>>
    /\ UNCHANGED outsideRouter

\* Time passes until the next pending timer is due.
TickToTimer ==
    /\ timers # {}
    /\ \A t \in timers : now < t.due
    /\ \E t \in timers :
          /\ \A o \in timers : t.due <= o.due
          /\ now' = t.due
    /\ UNCHANGED <<userStates, processingCommands, timers, events, admitted>>
    /\ UNCHANGED outsideRouter

RouterInit ==
    /\ now = StartTime
    /\ userStates = <<>>
    /\ processingCommands = {}
    /\ timers = {}
    /\ events = <<>>
    /\ admitted = [u \in Users |-> <<>>]

-----------------------------------------------------------------------------
(* Strings are sequences of one-character strings. *)

Digits == {"0", "1", "2", "3", "4", "5", "6", "7", "8", "9"}
Letters == {"a", "b", "x", "X", "A"}

\* JavaScript's undefined, a value no string equals.
undefined == <<"undefined">>

\* if (s): defined and not the empty string
truthy(s) == s # undefined /\ s # <<>>

\* \s of the regular expressions
IsSpace(c) == c \in {" ", "\t", "\n"}

RECURSIVE trimStart(_)
trimStart(s) == IF s # <<>> /\ IsSpace(Head(s)) THEN trimStart(Tail(s)) ELSE s

RECURSIVE trimEnd(_)
trimEnd(s) ==
    IF s # <<>> /\ IsSpace(s[Len(s)]) THEN trimEnd(SubSeq(s, 1, Len(s) - 1)) ELSE s

\* String.prototype.trim
trim(s) == trimEnd(trimStart(s))

replacePipes_None(s) == s

\* input.replace(/\|/g, ' ')
replacePipes(s) == [i \in 1..Len(s) |-> IF s[i] = "|" THEN " " ELSE s[i]]

\* input.replace(/\s+/g, ' ')
RECURSIVE collapseSpaces(_)
collapseSpaces(s) ==
    IF s = <<>> THEN <<>>
    ELSE IF IsSpace(Head(s)) THEN <<" ">> \o collapseSpaces(trimStart(s))
    ELSE <<Head(s)>> \o collapseSpaces(Tail(s))

\* String.prototype.split with a one-character separator: "" gives [""]
RECURSIVE split(_, _)
split(s, sep) ==
    IF \A i \in 1..Len(s) : s[i] # sep THEN <<s>>
    ELSE LET k == CHOOSE i \in 1..Len(s) : s[i] = sep /\ \A j \in 1..(i - 1) : s[j] # sep
         IN  <<SubSeq(s, 1, k - 1)>> \o split(SubSeq(s, k + 1, Len(s)), sep)

\* const [a, b, ...] = parts: a missing element is undefined
elementAt(parts, k) == IF k <= Len(parts) THEN parts[k] ELSE undefined

\* bin.replace(/x+$/i, '')
RECURSIVE stripTrailingX(_)
stripTrailingX(s) ==
    IF s # <<>> /\ s[Len(s)] \in {"x", "X"} THEN stripTrailingX(SubSeq(s, 1, Len(s) - 1)) ELSE s

contains(s, chars) == \E i \in 1..Len(s) : s[i] \in chars

\* /^20[2-3][0-9]$/.test(s)
isYear202x(s) ==
    Len(s) = 4 /\ s[1] = "2" /\ s[2] = "0" /\ s[3] \in {"2", "3"} /\ s[4] \in Digits

\* /^0[1-9]|1[0-2]$/.test(s): the alternation binds loosest, so this is
\* "starts with 0[1-9]" or "ends with 1[0-2]"
looksLikeMonth(s) ==
    \/ Len(s) >= 2 /\ s[1] = "0" /\ s[2] \in Digits \ {"0"}
    \/ Len(s) >= 2 /\ s[Len(s) - 1] = "1" /\ s[Len(s)] \in {"0", "1", "2"}

expandYear_None(y) == y

\* year = y && y.length === 2 ? '20' + y : y   and   if (year && year.length === 2) ...
expandYear(y) == IF truthy(y) /\ Len(y) = 2 THEN <<"2", "0">> \o y ELSE y

discardMaskedCvv_Keep(cvv) == cvv

\* if (cvv && /x/i.test(cvv)) cvv = undefined
discardMaskedCvv(cvv) ==
    IF truthy(cvv) /\ contains(cvv, {"x", "X"}) THEN undefined ELSE cvv

parseGenInput(input) ==
    LET text == collapseSpaces(replacePipes(trim(input)))
        parts == split(text, " ")
        bin0 == elementAt(parts, 1)
        month0 == elementAt(parts, 2)
        year0 == elementAt(parts, 3)
        cvv0 == elementAt(parts, 4)
        bin == IF truthy(bin0) THEN stripTrailingX(bin0) ELSE bin0
        combined == truthy(month0) /\ contains(month0, {"/"})
        my == split(month0, "/")
        month1 == IF combined THEN elementAt(my, 1) ELSE month0
        year1 == IF combined THEN expandYear(elementAt(my, 2)) ELSE year0
        year2 == expandYear(year1)
        swap == /\ truthy(year2) /\ truthy(month1) /\ Len(month1) = 4
                /\ isYear202x(month1) /\ looksLikeMonth(year2)
        month == IF swap THEN year2 ELSE month1
        year == IF swap THEN month1 ELSE year2
        cvv == discardMaskedCvv(cvv0)
    IN  [bin |-> bin, month |-> month, year |-> year, cvv |-> cvv]

RECURSIVE join(_)
join(parts) == IF parts = <<>> THEN <<>> ELSE Head(parts) \o join(Tail(parts))

\* The strings parseGenInput is applied to: up to four fields, each pair
\* separated by a pipe or a space, with an optional separator in front and
\* behind.
BinFields ==
    {<<"4", "7", "7", "3", "4", "9">>,
     <<"4", "7", "7", "3", "4", "9", "x", "x", "x", "x">>,
     <<"4", "7", "7", "3", "4", "9", "0", "0", "2", "6", "4", "6">>}
MonthFields ==
    {<<"0", "5">>,
     <<"1", "2">>,
     <<"0", "5", "/", "2", "7">>,
     <<"0", "5", "/", "2", "0", "2", "7">>,
     <<"2", "0", "2", "5">>,
     <<"2", "0", "3", "9">>}
YearFields ==
    {<<"2", "7">>,
     <<"2", "0", "2", "7">>,
     <<"0", "6">>,
     <<"1", "2">>,
     <<"1", "2", "3">>}
CvvFields ==
    {<<"1", "2", "3">>,
     <<"1", "2", "a">>,
     <<"1", "x", "3">>,
     <<"x", "x", "x">>}
Separators == {<<"|">>, <<" ">>, <<" ", "|">>}
Margins == {<<>>, <<"|">>, <<" ">>}

ParseInputs ==
    LET one == {<<b>> : b \in BinFields}
        two == {<<b, s, m>> : b \in BinFields, s \in Separators, m \in MonthFields}
        three == {t \o <<s, y>> : t \in two, s \in Separators, y \in YearFields}
        four == {t \o <<s, c>> : t \in three, s \in Separators, c \in CvvFields}
    IN  {join(<<l>> \o t \o <<r>>) : l \in Margins, r \in Margins,
                                      t \in one \cup two \cup three \cup four}

NoParse == [bin |-> undefined, month |-> undefined, year |-> undefined, cvv |-> undefined]

ParseIdle == pIn = <<>> /\ pOut = NoParse /\ pPc = "idle"

ParseInit == pIn \in ParseInputs /\ pOut = NoParse /\ pPc = "ready"

Parse ==
    /\ pPc = "ready"
    /\ pOut' = parseGenInput(pIn)
    /\ pPc' = "done"
    /\ UNCHANGED pIn
    /\ UNCHANGED outsideParse

-----------------------------------------------------------------------------
(* lookupBin, lines 122-163 *)

\* A field that is absent from a payload (or whose parent object is absent).
Missing == "<undefined>"

\* a || b
orElse(a, b) == IF a = Missing \/ a = "" THEN b ELSE a

\* The value lookupBin returns on failure, and a returned record.
null == <<>>
some(info) == <<info>>

Payload(bankName, scheme, brand, type, countryName, alpha2, code, level) ==
    [bankName |-> bankName, scheme |-> scheme, brand |-> brand, type |-> type,
     countryName |-> countryName, alpha2 |-> alpha2, code |-> code, level |-> level]

EmptyPayload ==
    Payload(Missing, Missing, Missing, Missing, Missing, Missing, Missing, Missing)

\* Bodies of binlist.net: bank.name, scheme, type, country.name,
\* country.alpha2, brand.
PrimaryPayloads ==
    {Payload("p1-bank", "p1-scheme", "p1-brand", "p1-type", "p1-country", "p1-alpha2", Missing, Missing),
     Payload(Missing, "p1-scheme", Missing, "", Missing, Missing, Missing, Missing),
     EmptyPayload}

\* Bodies of bintable.com: bank.name, scheme, brand, type, country.name,
\* country.code, level.
SecondaryPayloads ==
    {Payload("p2-bank", "p2-scheme", "p2-brand", "p2-type", "p2-country", Missing, "p2-code", "p2-level"),
     Payload(Missing, Missing, "p2-brand", "p2-type", Missing, Missing, Missing, Missing),
     EmptyPayload}

Statuses == {200, 404, 429, 500}

\* What a fetch ends in: a response (status, body that parses as JSON or
\* not) or a rejection (network-level failure).
NoResponse == [kind |-> "none", status |-> 0, valid |-> FALSE, data |-> EmptyPayload]
FetchError == [kind |-> "error", status |-> 0, valid |-> FALSE, data |-> EmptyPayload]
Responses(payloads) ==
    [kind : {"response"}, status : Statuses, valid : BOOLEAN, data : payloads]
FetchOutcomes(payloads) == {FetchError} \cup Responses(payloads)

\* response.ok
ok(r) == r.kind = "response" /\ r.status >= 200 /\ r.status <= 299

\* lines 130-137
mapPrimary(d) ==
    [bank |-> orElse(d.bankName, "Desconhecido"),
     brand |-> orElse(d.scheme, "Desconhecida"),
     type |-> orElse(d.type, "Desconhecido"),
     country |-> orElse(d.countryName, "Desconhecido"),
     countryCode |-> orElse(d.alpha2, "??"),
     level |-> orElse(d.brand, "Desconhecido")]

\* lines 147-154
mapSecondary(d) ==
    [bank |-> orElse(d.bankName, "Desconhecido"),
     brand |-> orElse(d.scheme, orElse(d.brand, "Desconhecida")),
     type |-> orElse(d.type, "Desconhecido"),
     country |-> orElse(d.countryName, "Desconhecido"),
     countryCode |-> orElse(d.code, "??"),
     level |-> orElse(d.level, "Desconhecido")]

afterPrimary_StrictAccess(r) ==
    IF r.kind = "error" THEN [pc |-> "done", result |-> null]
    ELSE IF ok(r) THEN
        IF r.valid /\ r.data.bankName # Missing /\ r.data.countryName # Missing
        THEN [pc |-> "done", result |-> some(mapPrimary(r.data))]
        ELSE [pc |-> "done", result |-> null]
    ELSE [pc |-> "fetch2", result |-> null]

\* Lines 126-139 once the primary's fetch has settled to r: a rejection and
\* a body that does not parse both land in the catch of line 159, which
\* returns null.
afterPrimary(r) ==
    IF r.kind = "error" THEN [pc |-> "done", result |-> null]
    ELSE IF ok(r) THEN
        IF r.valid THEN [pc |-> "done", result |-> some(mapPrimary(r.data))]
        ELSE [pc |-> "done", result |-> null]
    ELSE [pc |-> "fetch2", result |-> null]

afterSecondary_IgnoresStatus(r) ==
    IF r.kind = "error" THEN [pc |-> "done", result |-> null]
    ELSE [pc |-> "done", result |-> some(mapSecondary(r.data))]

\* Lines 143-158 once the secondary's fetch has settled to r: a non-ok
\* status reaches the throw of line 158.
afterSecondary(r) ==
    IF r.kind = "error" THEN [pc |-> "done", result |-> null]
    ELSE IF ok(r) THEN
        IF r.valid THEN [pc |-> "done", result |-> some(mapSecondary(r.data))]
        ELSE [pc |-> "done", result |-> null]
    ELSE [pc |-> "done", result |-> null]

LbFetchPrimary(r) ==
    /\ lbPc = "fetch1"
    /\ lbCalls' = Append(lbCalls, "binlist.net")
    /\ lbResp1' = r
    /\ lbPc' = afterPrimary(r).pc
    /\ lbResult' = afterPrimary(r).result
    /\ UNCHANGED lbResp2
    /\ UNCHANGED outsideLookup

LbFetchSecondary(r) ==
    /\ lbPc = "fetch2"
    /\ lbCalls' = Append(lbCalls, "bintable.com")
    /\ lbResp2' = r
    /\ lbPc' = afterSecondary(r).pc
    /\ lbResult' = afterSecondary(r).result
    /\ UNCHANGED lbResp1
    /\ UNCHANGED outsideLookup

LookupIdle ==
    /\ lbPc = "idle" /\ lbCalls = <<>> /\ lbResp1 = NoResponse /\ lbResp2 = NoResponse
    /\ lbResult = null

LookupInit ==
    /\ lbPc = "fetch1" /\ lbCalls = <<>> /\ lbResp1 = NoResponse /\ lbResp2 = NoResponse
    /\ lbResult = null

\* lookupBin called on its own.
LookupPrimary(r) == LbFetchPrimary(r) /\ UNCHANGED genVars
LookupSecondary(r) == LbFetchSecondary(r) /\ UNCHANGED genVars

-----------------------------------------------------------------------------
(* The cedula handler, lines 737-833 *)

MAX_ATTEMPTS == 2
FETCH_TIMEOUT_MS == 8000
BACKOFF_429_MS == 1200
BACKOFF_5XX_MS == 800
BACKOFF_NETWORK_MS == 700

AllDigits(s) == \A i \in 1..Len(s) : s[i] \in Digits

\* /^[0-9]{10}$/.test(cedula)
isCedula(s) == Len(s) = 10 /\ AllDigits(s)

CedulaArgs ==
    {<<"1", "7", "1", "2", "3", "4", "5", "6", "7", "8">>,
     <<" ", "1", "7", "1", "2", "3", "4", "5", "6", "7", "8", " ">>,
     <<"1", "7", "x", "x", "x", "x", "x", "x", "x", "x">>,
     <<"1", "7", "1", "2", "3">>,
     <<>>}

CedulaStatuses == {200, 400, 404, 429, 500, 503}

\* How one fetchWithTimeout ends: a response, a network-level rejection, or
\* the abort of the 8000 ms timer (an AbortError).
NoCdResponse == [kind |-> "none", status |-> 0, valid |-> FALSE, contribuyente |-> FALSE]
CdNetworkError == [kind |-> "error", status |-> 0, valid |-> FALSE, contribuyente |-> FALSE]
CdAbort == [kind |-> "abort", status |-> 0, valid |-> FALSE, contribuyente |-> FALSE]
CdOutcomes ==
    {CdNetworkError, CdAbort}
    \cup [kind : {"response"}, status : CedulaStatuses, valid : BOOLEAN, contribuyente : BOOLEAN]

is5xx(status) == status >= 500 /\ status < 600

Request(ms) == [op |-> "request", ms |-> ms]
Wait(ms) == [op |-> "wait", ms |-> ms]

\* Lines 764-774 after a response with this status on this attempt: the
\* backoff to wait (0: none) and where control goes next.  After either
\* backoff control reaches the break of line 774.
afterResponse(status, attempt) ==
    IF status = 429 /\ attempt = 1 THEN [wait |-> BACKOFF_429_MS, next |-> "classify"]
    ELSE IF status = 429 THEN [wait |-> 0, next |-> "classify"]
    ELSE IF is5xx(status) /\ attempt = 1 THEN [wait |-> BACKOFF_5XX_MS, next |-> "classify"]
    ELSE [wait |-> 0, next |-> "classify"]

afterRejection_NoRetry(attempt) == [wait |-> 0, next |-> "throw"]

afterRejection_OneMore(attempt) ==
    IF attempt = MAX_ATTEMPTS + 1 THEN [wait |-> 0, next |-> "throw"]
    ELSE [wait |-> BACKOFF_NETWORK_MS, next |-> "fetch"]

\* Lines 775-778 after a rejected fetch on this attempt.
afterRejection(attempt) ==
    IF attempt = MAX_ATTEMPTS THEN [wait |-> 0, next |-> "throw"]
    ELSE [wait |-> BACKOFF_NETWORK_MS, next |-> "fetch"]

\* Lines 784-823: the reply for the response the loop ended with.
replyFor(r) ==
    IF r.status = 404 THEN "not-found"
    ELSE IF r.status = 429 THEN "overloaded"
    ELSE IF r.status >= 400 THEN "error"
    ELSE IF ~r.valid THEN "unexpected-response"
    ELSE IF r.contribuyente THEN "info"
    ELSE "no-data"

replyForError_Generic(o) == "error"

\* Lines 824-832: the reply for an error thrown out of the loop.
replyForError(o) == IF o.kind = "abort" THEN "timeout" ELSE "error"

CdValidate_NoReturn ==
    /\ cdPc = "start"
    /\ IF trim(cdArg) = <<>> \/ ~isCedula(trim(cdArg))
       THEN cdPc' = "fetch" /\ cdReplies' = Append(cdReplies, "usage")
       ELSE cdPc' = "fetch" /\ UNCHANGED cdReplies
    /\ UNCHANGED <<cdArg, cdAttempt, cdAfter, cdResp, cdFirst, cdLog>>
    /\ UNCHANGED outsideCedula

\* Lines 738-741.
CdValidate ==
    /\ cdPc = "start"
    /\ IF trim(cdArg) = <<>> \/ ~isCedula(trim(cdArg))
       THEN cdPc' = "done" /\ cdReplies' = Append(cdReplies, "usage")
       ELSE cdPc' = "fetch" /\ UNCHANGED cdReplies
    /\ UNCHANGED <<cdArg, cdAttempt, cdAfter, cdResp, cdFirst, cdLog>>
    /\ UNCHANGED outsideCedula

\* One pass of the loop body up to its first await that follows the fetch.
CdFetch(o) ==
    /\ cdPc = "fetch"
    /\ cdFirst' = IF cdAttempt = 1 THEN o ELSE cdFirst
    /\ IF o.kind = "response"
       THEN LET a == afterResponse(o.status, cdAttempt)
            IN  /\ cdResp' = o
                /\ cdLog' = Append(cdLog, Request(0))
                /\ cdAfter' = a.next
                /\ cdPc' = IF a.wait > 0 THEN "backoff" ELSE a.next
                /\ UNCHANGED <<cdReplies, cdAttempt>>
       ELSE LET a == afterRejection(cdAttempt)
            IN  /\ cdLog' = Append(cdLog, Request(IF o.kind = "abort" THEN FETCH_TIMEOUT_MS ELSE 0))
                /\ IF a.next = "throw"
                   THEN /\ cdPc' = "done"
                        /\ cdReplies' = Append(cdReplies, replyForError(o))
                        /\ UNCHANGED <<cdAfter, cdAttempt>>
                   ELSE /\ cdPc' = "backoff"
                        /\ cdAfter' = a.next
                        /\ cdAttempt' = cdAttempt + 1
                        /\ UNCHANGED cdReplies
                /\ UNCHANGED cdResp
    /\ UNCHANGED cdArg
    /\ UNCHANGED outsideCedula

\* The setTimeout of a backoff fires.
CdBackoffOver ==
    /\ cdPc = "backoff"
    /\ cdLog' = Append(cdLog,
                       Wait(IF cdAfter = "fetch" THEN BACKOFF_NETWORK_MS
                            ELSE afterResponse(cdResp.status, cdAttempt).wait))
    /\ cdPc' = cdAfter
    /\ UNCHANGED <<cdArg, cdAttempt, cdAfter, cdResp, cdFirst, cdReplies>>
    /\ UNCHANGED outsideCedula

\* Lines 781-823.
CdClassify ==
    /\ cdPc = "classify"
    /\ cdReplies' = Append(cdReplies, replyFor(cdResp))
    /\ cdPc' = "done"
    /\ UNCHANGED <<cdArg, cdAttempt, cdAfter, cdResp, cdFirst, cdLog>>
    /\ UNCHANGED outsideCedula

CedulaIdle ==
    /\ cdPc = "idle" /\ cdArg = <<>> /\ cdAttempt = 1 /\ cdAfter = "classify"
    /\ cdResp = NoCdResponse /\ cdFirst = NoCdResponse /\ cdLog = <<>> /\ cdReplies = <<>>

CedulaInit ==
    /\ cdPc = "start" /\ cdArg \in CedulaArgs /\ cdAttempt = 1 /\ cdAfter = "classify"
    /\ cdResp = NoCdResponse /\ cdFirst = NoCdResponse /\ cdLog = <<>> /\ cdReplies = <<>>

-----------------------------------------------------------------------------
(* getCommandArgs, lines 174-186 *)

WordChars == Digits \cup Letters \cup {"g", "e", "n", "i", "l", "m", "r", "_"}

RECURSIVE joinWith(_, _)
joinWith(parts, sep) ==
    IF parts = <<>> THEN <<>>
    ELSE IF Len(parts) = 1 THEN parts[1]
    ELSE parts[1] \o sep \o joinWith(Tail(parts), sep)

RECURSIVE dropWhile(_, _)
dropWhile(s, chars) ==
    IF s # <<>> /\ Head(s) \in chars THEN dropWhile(Tail(s), chars) ELSE s

RECURSIVE takeLine(_)
takeLine(s) == IF s = <<>> \/ Head(s) = "\n" THEN <<>> ELSE <<Head(s)>> \o takeLine(Tail(s))

\* text.match(/^\.(\w+)\s*(.*)/): match[2], or undefined without a match
dotMatchArgs(text) ==
    IF Len(text) >= 2 /\ text[1] = "." /\ text[2] \in WordChars
    THEN takeLine(dropWhile(dropWhile(Tail(text), WordChars), {" ", "\t", "\n"}))
    ELSE undefined

getCommandArgs(text) ==
    IF text # <<>> /\ text[1] = "/"
    THEN joinWith(Tail(split(text, " ")), <<" ">>)
    ELSE IF dotMatchArgs(text) # undefined THEN dotMatchArgs(text) ELSE <<>>

-----------------------------------------------------------------------------
(* The gen handlers: registerCommand('gen'), lines 584-645, and
   handleDotCommand's case 'gen', lines 237-286 *)

BATCH_SIZE == 10
CARD_LENGTH == 16
MIN_BIN_LENGTH == 6
MAX_BIN_LENGTH == 16

\* isValidBin of utils.js: digits only, 6 to 16 of them.
isValidBin(bin) ==
    /\ bin # undefined
    /\ Len(bin) >= MIN_BIN_LENGTH /\ Len(bin) <= MAX_BIN_LENGTH
    /\ AllDigits(bin)

\* /^(0[1-9]|1[0-2])$/.test(s)
isMonth(s) ==
    /\ Len(s) = 2
    /\ \/ s[1] = "0" /\ s[2] \in Digits \ {"0"}
       \/ s[1] = "1" /\ s[2] \in {"0", "1", "2"}

\* /^([0-9]{2}|20[2-3][0-9])$/.test(s)
isYearOverride(s) == (Len(s) = 2 /\ AllDigits(s)) \/ isYear202x(s)

\* /^[0-9]{3,4}$/.test(s)
isCvv(s) == Len(s) \in {3, 4} /\ AllDigits(s)

validationError_NoBinCheck(p) ==
    IF truthy(p.month) /\ ~isMonth(p.month) THEN "invalid-month"
    ELSE IF truthy(p.year) /\ ~isYearOverride(p.year) THEN "invalid-year"
    ELSE IF truthy(p.cvv) /\ ~isCvv(p.cvv) THEN "invalid-cvv"
    ELSE ""

\* The validation replies of lines 597-608 and 244-259, "" when all pass.
validationError(p) ==
    IF ~isValidBin(p.bin) THEN "invalid-bin"
    ELSE IF truthy(p.month) /\ ~isMonth(p.month) THEN "invalid-month"
    ELSE IF truthy(p.year) /\ ~isYearOverride(p.year) THEN "invalid-year"
    ELSE IF truthy(p.cvv) /\ ~isCvv(p.cvv) THEN "invalid-cvv"
    ELSE ""

\* The Luhn sum of a digit string: from the right, every second digit is
\* doubled and reduced by 9 when above 9.
DigitValues ==
    [c \in Digits |-> CHOOSE v \in 0..9 : ToString(v) = c]
digitValue(c) == DigitValues[c]

luhnSum(s) ==
    LET term(i) == LET d == digitValue(s[Len(s) + 1 - i])
                   IN  IF i % 2 = 1 THEN d ELSE IF 2 * d > 9 THEN 2 * d - 9 ELSE 2 * d
        sum[i \in 0..Len(s)] == IF i = 0 THEN 0 ELSE sum[i - 1] + term(i)
    IN  sum[Len(s)]

luhnValid(s) == luhnSum(s) % 10 = 0

\* The random choices of one generateCard call.
Draws ==
    {[filler |-> "0", month |-> <<"0", "3">>, year |-> <<"2", "9">>, cvv |-> <<"4", "5", "6">>],
     [filler |-> "7", month |-> <<"1", "1">>, year |-> <<"3", "1">>, cvv |-> <<"7", "8", "9", "0">>]}

\* generateCard of utils.js: the bin extended with random digits to 15
\* digits, then the check digit that makes the number pass the Luhn test.
generateCard(bin, draw) ==
    LET body == [i \in 1..(CARD_LENGTH - 1) |-> IF i <= Len(bin) THEN bin[i] ELSE draw.filler]
        check == CHOOSE c \in Digits : luhnValid(body \o <<c>>)
    IN  [number |-> body \o <<check>>, month |-> draw.month, year |-> draw.year, cvv |-> draw.cvv]

\* fixedYear.slice(-2)
lastTwo(s) == IF Len(s) <= 2 THEN s ELSE SubSeq(s, Len(s) - 1, Len(s))

applyOverrides_YearVerbatim(card, p) ==
    [number |-> card.number,
     month |-> IF truthy(p.month) THEN p.month ELSE card.month,
     year |-> IF truthy(p.year) THEN p.year ELSE card.year,
     cvv |-> IF truthy(p.cvv) THEN p.cvv ELSE card.cvv]

\* Lines 611-613 and 263-265.
applyOverrides(card, p) ==
    [number |-> card.number,
     month |-> IF truthy(p.month) THEN p.month ELSE card.month,
     year |-> IF truthy(p.year) THEN lastTwo(p.year) ELSE card.year,
     cvv |-> IF truthy(p.cvv) THEN p.cvv ELSE card.cvv]

generateCards_SlicedBin(p, draws) ==
    [i \in 1..BATCH_SIZE |->
        applyOverrides(generateCard(SubSeq(p.bin, 1, MIN_BIN_LENGTH), draws[i]), p)]

generateCards_OneShort(p, draws) ==
    [i \in 1..(BATCH_SIZE - 1) |-> applyOverrides(generateCard(p.bin, draws[i]), p)]

\* Array(10).fill().map(...), lines 609-615 and 261-267.
generateCards(p, draws) ==
    [i \in 1..BATCH_SIZE |-> applyOverrides(generateCard(p.bin, draws[i]), p)]

\* The entry of lines 633-638 and 274-279.
historyEntry(p, cards) == [type |-> "gen", bin |-> p.bin, count |-> Len(cards)]

Reply(kind, cards) == [kind |-> kind, cards |-> cards]

\* The lookup outcomes the gen handler is run against.
GenOutcomes(payloads) ==
    {FetchError}
    \cup {r \in Responses(payloads) :
            /\ r.status \in {200, 500}
            /\ r.data \in {d \in payloads : d.scheme # Missing /\ d.bankName # Missing} \cup {EmptyPayload}
            /\ (r.status = 500 => ~r.valid /\ r.data = EmptyPayload)
            /\ (~r.valid => r.data = EmptyPayload)}

SlashGen == <<"/", "g", "e", "n">>
DotGen == <<".", "g", "e", "n">>

\* What follows the command name in the texts the gen handler is run on.
GenArgTexts ==
    {<<>>,
     <<" ", "4", "7", "7", "3", "4", "9", "|", "0", "5", "|", "2", "0", "2", "7", "|", "1", "2", "3">>,
     <<" ", "4", "7", "7", "3", "4", "9">>,
     <<" ", "4", "7", "7", "3", "4", "9", "x", "x", "x", "x", "|", "0", "5", "/", "2", "7">>,
     <<" ", "1", "2">>,
     <<" ", "4", "7", "7", "3", "4", "9", "|", "1", "3">>,
     <<" ", "4", "7", "7", "3", "4", "9", "|", "0", "5", "|", "2", "0", "4", "1">>,
     <<" ", "4", "7", "7", "3", "4", "9", "|", "0", "5", "|", "2", "7", "|", "1", "2", "a">>,
     <<" ", "4", "7", "7", "3", "4", "9", "0", "0", "2", "6", "4", "6", "1", "2", "3">>,
     <<" ", "4", "7", "7", "3", "4", "9", "0", "0", "2", "6", "4", "6", "1", "2", "3", "4">>,
     <<" ", "4", "7", "7", "3", "4", "9", "|", "0", "5", "|", "1", "9">>,
     <<" ", "4", "7", "7", "3", "4", "9", "|", "0", "5", "|", "3", "9">>,
     <<" ", "4", "7", "7", "3", "4", "9", "|", "2", "0", "2", "5", "|", "1", "2">>}

\* The argument text the handler works on: getCommandArgs(ctx) in the
\* registered handler, match[2] in handleDotCommand.
handlerArgs(form, text) == IF form = "slash" THEN getCommandArgs(text) ELSE dotMatchArgs(text)

\* The handler up to its first await: the arguments, the parser, the
\* validations and the batch; the slash form then awaits lookupBin, the dot
\* form saves the history entry and replies.
GenStart ==
    /\ gPc = "start" /\ gCmd = "gen"
    /\ LET args == handlerArgs(gForm, gText)
           p == parseGenInput(args)
       IN  IF ~truthy(args)
           THEN /\ gReplies' = Append(gReplies, Reply("usage", <<>>))
                /\ gPc' = "done"
                /\ UNCHANGED <<gValid, gDraws, gCards, gHistory, lookupVars>>
           ELSE IF validationError(p) # ""
           THEN /\ gReplies' = Append(gReplies, Reply(validationError(p), <<>>))
                /\ gPc' = "done"
                /\ UNCHANGED <<gValid, gDraws, gCards, gHistory, lookupVars>>
           ELSE \E draws \in [1..BATCH_SIZE -> Draws] :
                /\ gValid' = TRUE
                /\ gDraws' = draws
                /\ gCards' = generateCards(p, draws)
                /\ IF gForm = "slash"
                   THEN /\ gPc' = "lookup"
                        /\ lbPc' = "fetch1"
                        /\ UNCHANGED <<gHistory, gReplies, lbCalls, lbResp1, lbResp2, lbResult>>
                   ELSE /\ gPc' = "done"
                        /\ gHistory' = <<historyEntry(p, gCards')>> \o gHistory
                        /\ gReplies' = Append(gReplies, Reply("cards", gCards'))
                        /\ UNCHANGED lookupVars
    /\ UNCHANGED <<gCmd, gForm, gText>>
    /\ UNCHANGED outsideGen

\* lookupBin(bin.slice(0, 6)) runs.
GenLookupPrimary(r) == gPc = "lookup" /\ LbFetchPrimary(r) /\ UNCHANGED genVars
GenLookupSecondary(r) == gPc = "lookup" /\ LbFetchSecondary(r) /\ UNCHANGED genVars

\* Lines 616-640, after lookupBin returned: a null result is replaced by {}.
GenFinish ==
    /\ gPc = "lookup" /\ gCmd = "gen" /\ lbPc = "done"
    /\ LET p == parseGenInput(getCommandArgs(gText))
       IN  /\ gHistory' = <<historyEntry(p, gCards)>> \o gHistory
           /\ gReplies' = Append(gReplies, Reply("cards", gCards))
    /\ gPc' = "done"
    /\ UNCHANGED <<gCmd, gForm, gText, gValid, gDraws, gCards, lookupVars>>
    /\ UNCHANGED outsideGen

\* The bin handlers: registerCommand('bin'), lines 647-692, and
\* handleDotCommand's case 'bin', lines 288-330.

SlashBin == <<"/", "b", "i", "n">>
DotBin == <<".", "b", "i", "n">>

\* What follows the command name in the texts the bin handler is run on.
BinArgTexts ==
    {<<>>,
     <<" ", "4", "3", "1", "9", "4", "0">>,
     <<" ", " ", "4", "3", "1", "9", "4", "0">>,
     <<" ", "1", "2">>,
     <<" ", "4", "7", "7", "3", "4", "9", "x", "x", "x", "x">>,
     <<" ", "4", "3", "1", "9", "4", "0", "|", "0", "5">>}

\* The entry of lines 679-684 and 315-320.
lookupEntry(bin, info) == [type |-> "lookup", bin |-> bin, info |-> info]

\* The handler up to its first await: the checks of the argument, then the
\* call of lookupBin.
BinStart ==
    /\ gPc = "start" /\ gCmd = "bin"
    /\ LET args == handlerArgs(gForm, gText)
       IN  IF ~truthy(args)
           THEN /\ gReplies' = Append(gReplies, Reply("usage", <<>>))
                /\ gPc' = "done"
                /\ UNCHANGED <<gValid, lookupVars>>
           ELSE IF ~isValidBin(args)
           THEN /\ gReplies' = Append(gReplies, Reply("invalid-bin", <<>>))
                /\ gPc' = "done"
                /\ UNCHANGED <<gValid, lookupVars>>
           ELSE /\ gValid' = TRUE
                /\ gPc' = "lookup"
                /\ lbPc' = "fetch1"
                /\ UNCHANGED <<gReplies, lbCalls, lbResp1, lbResp2, lbResult>>
    /\ UNCHANGED <<gCmd, gForm, gText, gDraws, gCards, gHistory>>
    /\ UNCHANGED outsideGen

\* Lines 662-686 and 298-322, after lookupBin returned.
BinFinish ==
    /\ gPc = "lookup" /\ gCmd = "bin" /\ lbPc = "done"
    /\ IF lbResult = null
       THEN /\ gReplies' = Append(gReplies, Reply("bin-not-found", <<>>))
            /\ UNCHANGED gHistory
       ELSE /\ gHistory' = <<lookupEntry(handlerArgs(gForm, gText), lbResult[1])>> \o gHistory
            /\ gReplies' = Append(gReplies, Reply("bin-info", <<>>))
    /\ gPc' = "done"
    /\ UNCHANGED <<gCmd, gForm, gText, gValid, gDraws, gCards, lookupVars>>
    /\ UNCHANGED outsideGen

GenIdle ==
    /\ gPc = "idle" /\ gCmd = "gen" /\ gForm = "slash" /\ gText = <<>> /\ gValid = FALSE
    /\ gDraws = <<>> /\ gCards = <<>> /\ gHistory = <<>> /\ gReplies = <<>>

GenInit ==
    /\ gPc = "start" /\ gCmd \in {"gen", "bin"} /\ gForm \in Forms
    /\ gText \in IF gCmd = "gen"
                 THEN {(IF gForm = "slash" THEN SlashGen ELSE DotGen) \o a : a \in GenArgTexts}
                 ELSE {(IF gForm = "slash" THEN SlashBin ELSE DotBin) \o a : a \in BinArgTexts}
    /\ gValid = FALSE /\ gDraws = <<>> /\ gCards = <<>> /\ gHistory = <<>> /\ gReplies = <<>>

-----------------------------------------------------------------------------
(* The persisted record: loadUserData / saveUserData, lines 104-119, used by
   handleMailCommand, lines 903-945, and by the history write of the gen
   handler, lines 631-639.  One user; a mail and a gen command of that user
   that were both admitted and overlap. *)

NoMail == [email |-> "", token |-> ""]

\* The record loadUserData returns when the file does not exist.
DefaultRecord == [favorites |-> <<>>, history |-> <<>>, tempMail |-> NoMail]

loadUserData(store) == IF store = null THEN DefaultRecord ELSE store[1]

saveUserData(store, data) == some(data)

\* history.unshift({type: 'gen', bin, count: cards.length, ...})
genEntry(bin) == [type |-> "gen", bin |-> bin, count |-> BATCH_SIZE]

OldEntry == [type |-> "gen", bin |-> <<"4", "3", "1", "9", "4", "0">>, count |-> BATCH_SIZE]
OldMail == [email |-> "old@mail", token |-> "t0"]

\* The files the run starts from.
InitialStores ==
    {null,
     some(DefaultRecord),
     some([favorites |-> <<>>, history |-> <<OldEntry>>, tempMail |-> NoMail]),
     some([favorites |-> <<>>, history |-> <<OldEntry>>, tempMail |-> OldMail])}

StoreBins == {<<"4", "7", "7", "3", "4", "9">>, <<"5", "5", "4", "4", "3", "3">>}

\* How generateTempMail settles.
MailOutcomes ==
    {[ok |-> TRUE, mail |-> [email |-> "a@mail", token |-> "t1"]],
     [ok |-> TRUE, mail |-> [email |-> "b@mail", token |-> "t2"]],
     [ok |-> FALSE, mail |-> NoMail]}

\* Lines 905-909: the record is loaded, then the wait message is sent.
MailLoads ==
    /\ mPc = "start"
    /\ mData' = loadUserData(stStore)
    /\ stLog' = Append(stLog, "mail-load")
    /\ mPc' = "replying"
    /\ UNCHANGED <<stStore, hPc, hBin>>
    /\ UNCHANGED outsideStore

\* The reply of line 909 settles; generateTempMail is called.
MailWaitSent ==
    /\ mPc = "replying"
    /\ mPc' = "generating"
    /\ UNCHANGED <<stStore, mData, hPc, hBin, stLog>>
    /\ UNCHANGED outsideStore

MailGenerated_Reloads(o) ==
    /\ mPc = "generating"
    /\ IF o.ok
       THEN /\ mData' = [loadUserData(stStore) EXCEPT !.tempMail = o.mail]
            /\ stStore' = saveUserData(stStore, mData')
            /\ stLog' = Append(stLog, "mail-save")
       ELSE UNCHANGED <<mData, stStore, stLog>>
    /\ mPc' = "editing"
    /\ UNCHANGED <<hPc, hBin>>
    /\ UNCHANGED outsideStore

\* Lines 913-917: generateTempMail settled; on success the record loaded at
\* line 906 gets its tempMail and is saved.  On failure (lines 932-941)
\* nothing is saved.
MailGenerated(o) ==
    /\ mPc = "generating"
    /\ IF o.ok
       THEN /\ mData' = [mData EXCEPT !.tempMail = o.mail]
            /\ stStore' = saveUserData(stStore, mData')
            /\ stLog' = Append(stLog, "mail-save")
       ELSE UNCHANGED <<mData, stStore, stLog>>
    /\ mPc' = "editing"
    /\ UNCHANGED <<hPc, hBin>>
    /\ UNCHANGED outsideStore

\* The editMessageText of lines 920-930 or 935-940 settles.
MailEdited ==
    /\ mPc = "editing"
    /\ mPc' = "done"
    /\ UNCHANGED <<stStore, mData, hPc, hBin, stLog>>
    /\ UNCHANGED outsideStore

\* The gen handler up to the await of lookupBin (line 616).
StoreGenStarts ==
    /\ hPc = "start"
    /\ hPc' = "lookup"
    /\ UNCHANGED <<stStore, mPc, mData, hBin, stLog>>
    /\ UNCHANGED outsideStore

\* Lines 617-640: lookupBin settled; the record is loaded, the entry put in
\* front of its history and the record saved, without an await in between;
\* then the reply is sent.
StoreGenWrites ==
    /\ hPc = "lookup"
    /\ LET userData == loadUserData(stStore)
       IN  stStore' = saveUserData(stStore,
                                   [userData EXCEPT !.history = <<genEntry(hBin)>> \o @])
    /\ stLog' = Append(stLog, "gen-write")
    /\ hPc' = "replying"
    /\ UNCHANGED <<mPc, mData, hBin>>
    /\ UNCHANGED outsideStore

\* The reply of line 640 settles.
StoreGenReplied ==
    /\ hPc = "replying"
    /\ hPc' = "done"
    /\ UNCHANGED <<stStore, mPc, mData, hBin, stLog>>
    /\ UNCHANGED outsideStore

StoreIdle ==
    /\ stStore = null /\ mPc = "idle" /\ mData = DefaultRecord
    /\ hPc = "idle" /\ hBin = <<>> /\ stLog = <<>>

StoreInit ==
    /\ stStore \in InitialStores /\ mPc = "start" /\ mData = DefaultRecord
    /\ hPc = "start" /\ hBin \in StoreBins /\ stLog = <<>>

-----------------------------------------------------------------------------
(* The favorites commands of handleDotCommand, lines 417-468 *)

MaxFavCommands == 3

AgregarbinText == <<".", "a", "g", "r", "e", "g", "a", "r", "b", "i", "n">>
EliminarbinText == <<".", "e", "l", "i", "m", "i", "n", "a", "r", "b", "i", "n">>

\* What follows the command word in the message.
AgregarbinRests ==
    {<<>>,
     <<" ", "4", "3", "1", "9", "4", "0">>,
     <<" ", "4", "7", "7", "3", "4", "9", "|", "0", "5", "|", "2", "0", "2", "5">>,
     <<" ", "5", "5", "4", "4", "3", "3", "x", "x">>,
     <<" ", "4", "3", "1", "9", "4", "0", "x", "x">>,
     <<" ", "1", "2">>}

EliminarbinRests ==
    {<<>>,
     <<" ", "1">>,
     <<" ", "2">>,
     <<" ", "0">>,
     <<" ", "9">>,
     <<" ", "4", "3", "1", "9", "4", "0">>,
     <<" ", "4", "7", "7", "3", "4", "9">>,
     <<" ", "4", "3", "1", "9", "4", "0", "x", "x">>,
     <<" ", "5", "5", "4", "4", "3", "3", "|", "0", "5">>,
     <<" ", "9", "9", "9", "9", "9", "9", "x">>}

\* parseInt of a string of digits.
parseInt(s) ==
    LET value[i \in 0..Len(s)] == IF i = 0 THEN 0 ELSE 10 * value[i - 1] + DigitValues[s[i]]
    IN  value[Len(s)]

\* /^\d+$/.test(args)
isIndex(args) == args # <<>> /\ AllDigits(args)

\* favorites.findIndex(fav => fav.bin === bin), 1-based; 0 stands for -1.
findIndex(favorites, bin) ==
    IF \E i \in 1..Len(favorites) : favorites[i].bin = bin
    THEN CHOOSE i \in 1..Len(favorites) :
             /\ favorites[i].bin = bin
             /\ \A j \in 1..(i - 1) : favorites[j].bin # bin
    ELSE 0

someFav_Never(favorites, bin) == FALSE

\* favorites.some(fav => fav.bin === bin)
someFav(favorites, bin) == \E i \in 1..Len(favorites) : favorites[i].bin = bin

\* favorites.splice(i - 1, 1): the array without its i-th entry.
RemoveAt(favorites, i) == SubSeq(favorites, 1, i - 1) \o SubSeq(favorites, i + 1, Len(favorites))

FavReply(kind, bin) == [kind |-> kind, bin |-> bin]
NoFavReply == FavReply("none", <<>>)

\* Lines 417-438: the handler of .agregarbin, run on the message text.
Agregarbin(text) ==
    /\ fvPc = "ready" /\ fvCount < MaxFavCommands
    /\ LET args == dotMatchArgs(text)
           parsedAdd == parseGenInput(args)
           userDataAdd == loadUserData(fvFile)
       IN  /\ fvArgs' = args
           /\ fvBefore' = userDataAdd.favorites
           /\ IF args = <<>>
              THEN fvReply' = FavReply("usage", <<>>) /\ UNCHANGED fvFile
              ELSE IF ~isValidBin(parsedAdd.bin)
              THEN fvReply' = FavReply("invalid-bin", <<>>) /\ UNCHANGED fvFile
              ELSE IF someFav(userDataAdd.favorites, parsedAdd.bin)
              THEN fvReply' = FavReply("duplicate", <<>>) /\ UNCHANGED fvFile
              ELSE /\ fvFile' = saveUserData(fvFile,
                                   [userDataAdd EXCEPT !.favorites = Append(@, parsedAdd)])
                   /\ fvReply' = FavReply("added", <<>>)
    /\ fvCmd' = "agregarbin"
    /\ fvCount' = fvCount + 1
    /\ UNCHANGED fvPc
    /\ UNCHANGED outsideFav

\* Lines 439-468: the handler of .eliminarbin, run on the message text.
Eliminarbin(text) ==
    /\ fvPc = "ready" /\ fvCount < MaxFavCommands
    /\ LET args == dotMatchArgs(text)
           userDataDel == loadUserData(fvFile)
           favorites == userDataDel.favorites
       IN  /\ fvArgs' = args
           /\ fvBefore' = favorites
           /\ IF args = <<>>
              THEN fvReply' = FavReply("usage", <<>>) /\ UNCHANGED fvFile
              ELSE IF isIndex(args)
              THEN LET index == parseInt(args) - 1
                   IN  IF index < 0 \/ index >= Len(favorites)
                       THEN fvReply' = FavReply("invalid-index", <<>>) /\ UNCHANGED fvFile
                       ELSE /\ fvFile' = saveUserData(fvFile,
                                            [userDataDel EXCEPT
                                                !.favorites = RemoveAt(favorites, index + 1)])
                            /\ fvReply' = FavReply("removed", favorites[index + 1].bin)
              ELSE LET favIndex == findIndex(favorites, parseGenInput(args).bin)
                   IN  IF favIndex = 0
                       THEN fvReply' = FavReply("not-found", <<>>) /\ UNCHANGED fvFile
                       ELSE /\ fvFile' = saveUserData(fvFile,
                                            [userDataDel EXCEPT
                                                !.favorites = RemoveAt(favorites, favIndex)])
                            /\ fvReply' = FavReply("removed", favorites[favIndex].bin)
    /\ fvCmd' = "eliminarbin"
    /\ fvCount' = fvCount + 1
    /\ UNCHANGED fvPc
    /\ UNCHANGED outsideFav

FavIdle ==
    /\ fvFile = null /\ fvPc = "idle" /\ fvCmd = "none" /\ fvArgs = <<>>
    /\ fvBefore = <<>> /\ fvReply = NoFavReply /\ fvCount = 0

FavInit ==
    /\ fvFile = null /\ fvPc = "ready" /\ fvCmd = "none" /\ fvArgs = <<>>
    /\ fvBefore = <<>> /\ fvReply = NoFavReply /\ fvCount = 0

-----------------------------------------------------------------------------
(* Specifications *)

\* The router: events of two users, the cooldown, the duplicate guard.
Init == RouterInit /\ ParseIdle /\ LookupIdle /\ CedulaIdle /\ GenIdle /\ StoreIdle /\ FavIdle

Next ==
    \/ \E u \in Users, m \in MsgIds : DeliverSlash(u, m, cmdOf(u, m))
    \/ \E u \in Users, m \in MsgIds : DeliverDot(u, m, cmdOf(u, m))
    \/ \E i \in 1..Len(events) : HandlerReturns(i)
    \/ \E i \in 1..Len(events) : HandlerThrows(i)
    \/ \E t \in timers : TimerFires(t)
    \/ Tick
    \/ TickToTimer

Spec == Init /\ [][Next]_vars

\* The handlers that await lookupBin, whose two fetch calls (lines 126 and
\* 143) carry no timeout and no abort signal.
UnboundedHandlers ==
    {<<"registered", "gen">>, <<"registered", "bin">>, <<"handleDotCommand", "bin">>}

\* A handler all of whose awaits are bounded completes.
BoundedHandlerCompletes ==
    \E i \in 1..Len(events) :
        /\ events[i].handler \notin UnboundedHandlers
        /\ (HandlerReturns(i) \/ HandlerThrows(i))

\* The router with what the runtime guarantees: a due timer fires, time
\* reaches the next timer, and a handler whose awaits are bounded completes.
\* A fetch without a timeout need not settle, so a handler awaiting
\* lookupBin is not required to complete.
FairSpec ==
    /\ Init /\ [][Next]_vars
    /\ WF_vars(\E t \in timers : TimerFires(t))
    /\ WF_vars(TickToTimer)
    /\ WF_vars(BoundedHandlerCompletes)

\* parseGenInput applied to one input.
InitParse == RouterInit /\ ParseInit /\ LookupIdle /\ CedulaIdle /\ GenIdle /\ StoreIdle /\ FavIdle

NextParse == Parse

SpecParse == InitParse /\ [][NextParse]_vars

\* One call of lookupBin.
InitLookup == RouterInit /\ ParseIdle /\ LookupInit /\ CedulaIdle /\ GenIdle /\ StoreIdle /\ FavIdle

NextLookup ==
    \/ \E r \in FetchOutcomes(PrimaryPayloads) : LookupPrimary(r)
    \/ \E r \in FetchOutcomes(SecondaryPayloads) : LookupSecondary(r)

SpecLookup == InitLookup /\ [][NextLookup]_vars

\* One run of the cedula handler.
InitCedula == RouterInit /\ ParseIdle /\ LookupIdle /\ CedulaInit /\ GenIdle /\ StoreIdle /\ FavIdle

NextCedula ==
    \/ CdValidate
    \/ \E o \in CdOutcomes : CdFetch(o)
    \/ CdBackoffOver
    \/ CdClassify

SpecCedula == InitCedula /\ [][NextCedula]_vars

\* The same run, with what the runtime guarantees: a fetch bounded by its
\* abort timer settles, a setTimeout fires, and a handler that can continue
\* does.
FairSpecCedula == InitCedula /\ [][NextCedula]_vars /\ WF_vars(NextCedula)

\* One run of a gen or bin handler, slash or dot form.
InitGen == RouterInit /\ ParseIdle /\ LookupIdle /\ CedulaIdle /\ GenInit /\ StoreIdle /\ FavIdle

NextGen ==
    \/ GenStart
    \/ \E r \in GenOutcomes(PrimaryPayloads) : GenLookupPrimary(r)
    \/ \E r \in GenOutcomes(SecondaryPayloads) : GenLookupSecondary(r)
    \/ GenFinish
    \/ BinStart
    \/ BinFinish

SpecGen == InitGen /\ [][NextGen]_vars

\* A mail and a gen command of one user, both admitted, overlapping.
InitStore == RouterInit /\ ParseIdle /\ LookupIdle /\ CedulaIdle /\ GenIdle /\ StoreInit /\ FavIdle

NextStore ==
    \/ MailLoads
    \/ MailWaitSent
    \/ \E o \in MailOutcomes : MailGenerated(o)
    \/ MailEdited
    \/ StoreGenStarts
    \/ StoreGenWrites
    \/ StoreGenReplied

SpecStore == InitStore /\ [][NextStore]_vars

\* One user's agregarbin and eliminarbin commands, one after the other.
InitFav == RouterInit /\ ParseIdle /\ LookupIdle /\ CedulaIdle /\ GenIdle /\ StoreIdle /\ FavInit

NextFav ==
    \/ \E rest \in AgregarbinRests : Agregarbin(AgregarbinText \o rest)
    \/ \E rest \in EliminarbinRests : Eliminarbin(EliminarbinText \o rest)

SpecFav == InitFav /\ [][NextFav]_vars

-----------------------------------------------------------------------------
(* Claims about the router *)

EventIds == 1..Len(events)
HandlerInvoked(e) == e.handler[1] # "none"

\* C1: for any single user and any interleaving of slash-form and dot-form
\* events, any two admissions by isCommandAllowed are at least
\* COOLDOWN_PERIOD apart.
C1_AdmissionsSpaced ==
    \A u \in Users : \A i, j \in 1..Len(admitted[u]) :
        i < j => admitted[u][j] - admitted[u][i] >= COOLDOWN_PERIOD

\* Two admissions of one user, one through each trigger form.
C1_Witness ==
    \E i, j \in EventIds :
        /\ i < j /\ events[i].user = events[j].user
        /\ events[i].form # events[j].form
        /\ HandlerInvoked(events[i]) /\ HandlerInvoked(events[j])

\* C2: a command (not a redelivery dropped by the duplicate guard) that
\* arrives within the cooldown window of an admitted command of the same
\* user is denied: exactly one reply, no handler invoked, no lookup started
\* and no write of the user's record.
C2_DeniedInWindow ==
    \A i \in EventIds :
        (events[i].inWindow /\ events[i].pc # "dropped") =>
            /\ events[i].pc = "denied"
            /\ events[i].replies = 1
            /\ ~HandlerInvoked(events[i])
            /\ events[i].calls = 0 /\ events[i].writes = 0

\* A dot-form command denied within the window of an admitted slash-form
\* command of the same user.
C2_Witness ==
    \E i, j \in EventIds :
        /\ i < j /\ events[i].user = events[j].user
        /\ events[i].form = "slash" /\ HandlerInvoked(events[i])
        /\ events[j].form = "dot" /\ events[j].inWindow /\ events[j].pc = "denied"

\* C3: a slash-form delivery of a message that arrives while an earlier
\* delivery of the same (userId, messageId) is being handled or within its
\* retention window produces no reply and invokes no handler, and at most
\* one handler runs for the message at a time.
C3_DuplicateDropped ==
    /\ \A i \in EventIds :
          events[i].dup =>
              /\ events[i].pc = "dropped"
              /\ events[i].replies = 0
              /\ ~HandlerInvoked(events[i])
    /\ \A i, j \in EventIds :
          (/\ i # j /\ events[i].form = "slash" /\ events[j].form = "slash"
           /\ events[i].user = events[j].user /\ events[i].msg = events[j].msg
           /\ events[i].pc = "handling") => events[j].pc # "handling"

\* The second delivery arrives while the first is still being handled.
C3_Witness ==
    \E i, j \in EventIds :
        /\ i < j /\ events[i].pc = "handling" /\ events[j].dup
        /\ events[i].user = events[j].user /\ events[i].msg = events[j].msg

-----------------------------------------------------------------------------
(* Claims about parseGenInput *)

M05 == <<"0", "5">>
M12 == <<"1", "2">>
Y27 == <<"2", "7">>
Y06 == <<"0", "6">>
CVV123 == <<"1", "2", "3">>
Y2025 == <<"2", "0", "2", "5">>
Y2039 == <<"2", "0", "3", "9">>
Y2027 == <<"2", "0", "2", "7">>
CVV1x3 == <<"1", "x", "3">>
B477349 == <<"4", "7", "7", "3", "4", "9">>
Pipe == <<"|">>
Slash == <<"/">>
\* C7: for an input BIN|MM/YY|CVV, parseGenInput returns month MM, year
\* "20"+YY and cvv CVV; e.g. "477349002646|05/27|123" gives
\* {bin: "477349002646", month: "05", year: "2027", cvv: "123"}.
C7_CombinedMonthYearKeepsCvv ==
    \A b \in BinFields, mm \in {M05, M12}, yy \in {Y27, Y06}, c \in {CVV123} :
        (pPc = "done" /\ pIn = join(<<b, Pipe, mm, Slash, yy, Pipe, c>>)) =>
            pOut = [bin |-> stripTrailingX(b), month |-> mm,
                    year |-> <<"2", "0">> \o yy, cvv |-> c]

\* C8: for an input BIN|YYYY|MM with YYYY in 2020..2039 and MM in 01..12,
\* parseGenInput swaps the fields and returns month MM and year YYYY; e.g.
\* "477349xxxx|2025|06" gives month "06" and year "2025".
C8_ReversedYearMonthSwapped ==
    \A b \in BinFields, yyyy \in {Y2025, Y2039}, mm \in {M05, Y06, M12} :
        (pPc = "done" /\ pIn = join(<<b, Pipe, yyyy, Pipe, mm>>)) =>
            (pOut.month = mm /\ pOut.year = yyyy)

\* C9 as stated: the cvv of every parse result is absent or digits-only
\* (a cvv field containing any letter is returned as unset).
C9_CvvAbsentOrDigits ==
    pPc = "done" => (pOut.cvv = undefined \/ AllDigits(pOut.cvv))

\* C9, amended: a cvv field containing the letter x or X is returned as
\* unset, so the cvv of every parse result is absent or free of x and X.
C9_CvvAbsentOrUnmasked ==
    pPc = "done" => (pOut.cvv = undefined \/ ~contains(pOut.cvv, {"x", "X"}))

\* A fourth field holding an x was given and the result has no cvv.
C9_Witness ==
    /\ pPc = "done" /\ pOut.cvv = undefined
    /\ pIn = join(<<B477349, Pipe, M05, Pipe, Y2027, Pipe, CVV1x3>>)

-----------------------------------------------------------------------------
(* Claims about lookupBin *)

InfoFields == {"bank", "brand", "type", "country", "countryCode", "level"}
DefaultLiterals == {"Desconhecido", "Desconhecida", "??"}
PayloadValues(d) == {d[f] : f \in DOMAIN d} \ {Missing, ""}
Succeeded(r) == r.kind = "response" /\ ok(r) /\ r.valid

\* C5: when the primary provider answers with a non-success status, the
\* secondary is queried next; if the secondary answers 200 with valid JSON
\* the result is built only from the secondary's fields (or the default
\* literals); if the secondary fails too the result is null.
C5_FallbackOnStatus ==
    (lbPc = "done" /\ lbResp1.kind = "response" /\ ~ok(lbResp1)) =>
        /\ lbCalls = <<"binlist.net", "bintable.com">>
        /\ Succeeded(lbResp2) =>
              /\ lbResult # null
              /\ \A f \in InfoFields :
                    lbResult[1][f] \in PayloadValues(lbResp2.data) \cup DefaultLiterals
        /\ ~Succeeded(lbResp2) => lbResult = null

\* The primary answered 500 with a body and the secondary answered 200.
C5_Witness ==
    /\ lbPc = "done" /\ lbResp1.kind = "response" /\ lbResp1.status = 500
    /\ lbResp1.data.bankName = "p1-bank"
    /\ Succeeded(lbResp2) /\ lbResult # null /\ lbResult[1].bank = "p2-bank"

\* C6: when the request to the primary provider itself fails, the
\* secondary provider is still queried.
C6_FallbackOnHardError ==
    (lbPc = "done" /\ lbResp1.kind = "error") => lbCalls = <<"binlist.net", "bintable.com">>

-----------------------------------------------------------------------------
(* Claims about the cedula handler *)

Requests(log) == Cardinality({i \in 1..Len(log) : log[i].op = "request"})
Transient(status) == status = 429 \/ is5xx(status)

\* C4: when the first attempt returns 429 or a 5xx, the handler waits the
\* backoff (1200 ms for 429, 800 ms for 5xx) and then performs exactly one
\* more request; if that one fails too, the 429/5xx classification is what
\* the user is told.
C4_RetryAfterTransientStatus ==
    (cdPc = "done" /\ cdFirst.kind = "response" /\ Transient(cdFirst.status)) =>
        /\ Requests(cdLog) = 2
        /\ cdLog[2] = Wait(IF cdFirst.status = 429 THEN BACKOFF_429_MS ELSE BACKOFF_5XX_MS)
        /\ cdLog[3].op = "request"

-----------------------------------------------------------------------------
(* Claims about the gen handlers *)

\* C10: every gen command, slash or dot form, whose specification passes
\* validation replies with exactly 10 cards and records count = 10 in the
\* history entry, whether the BIN lookup succeeds or returns null.
C10_TenCards ==
    (gPc = "done" /\ gCmd = "gen" /\ gValid) =>
        /\ Len(gReplies) = 1
        /\ gReplies[1].kind = "cards" /\ Len(gReplies[1].cards) = 10
        /\ Len(gHistory) = 1
        /\ gHistory[1].type = "gen" /\ gHistory[1].count = 10

\* A slash-form gen whose lookup returned null has replied with its cards.
C10_Witness ==
    /\ gPc = "done" /\ gCmd = "gen" /\ gValid /\ gForm = "slash"
    /\ lbPc = "done" /\ lbResult = null
    /\ Len(gReplies) = 1 /\ Len(gReplies[1].cards) = 10

\* The specification the gen handler parsed from the text of its command.
GenParsed == parseGenInput(handlerArgs(gForm, gText))

startsWith(s, prefix) == Len(s) >= Len(prefix) /\ SubSeq(s, 1, Len(prefix)) = prefix

firstDigits(s, n) == IF Len(s) <= n THEN s ELSE SubSeq(s, 1, n)

\* C11 as stated: for every valid bin, of 6 to 16 digits, every generated
\* card number has 16 digits, passes the Luhn checksum and starts with the
\* input bin, also when the bin already has 16 digits.
C11_NumberStartsWithBin ==
    (gCmd = "gen" /\ gValid) =>
        LET bin == GenParsed.bin
        IN  \A i \in 1..Len(gCards) :
                /\ Len(gCards[i].number) = CARD_LENGTH
                /\ luhnValid(gCards[i].number)
                /\ startsWith(gCards[i].number, bin)

\* C11, amended: every generated card number has 16 digits, passes the Luhn
\* checksum and starts with the first 15 digits of the input bin (with the
\* whole bin when it has at most 15 digits); the 16th digit is the check
\* digit.
C11_NumberStartsWithBinBody ==
    (gCmd = "gen" /\ gValid) =>
        LET body == firstDigits(GenParsed.bin, CARD_LENGTH - 1)
        IN  \A i \in 1..Len(gCards) :
                /\ Len(gCards[i].number) = CARD_LENGTH
                /\ luhnValid(gCards[i].number)
                /\ startsWith(gCards[i].number, body)

\* A batch for a 16-digit bin whose last digit is not its check digit.
C11_Witness ==
    /\ gPc = "done" /\ gCmd = "gen" /\ gValid /\ Len(GenParsed.bin) = CARD_LENGTH
    /\ Len(gCards) = BATCH_SIZE
    /\ luhnValid(gCards[1].number) /\ gCards[1].number # GenParsed.bin

\* The bin the handler validates: the parsed bin for gen, the whole
\* argument text for bin.
GivenBin == IF gCmd = "gen" THEN GenParsed.bin ELSE handlerArgs(gForm, gText)

\* C12: for the gen and bin commands in both trigger forms, a bin that
\* fails the validity predicate is rejected with one error reply, and no
\* card is generated, no provider requested and nothing written to the
\* user's record.
C12_InvalidBinRejectedFirst ==
    (gPc # "start" /\ truthy(handlerArgs(gForm, gText)) /\ ~isValidBin(GivenBin)) =>
        /\ gPc = "done"
        /\ gReplies = <<Reply("invalid-bin", <<>>)>>
        /\ gCards = <<>>
        /\ lbCalls = <<>> /\ lbPc = "idle"
        /\ gHistory = <<>>

\* A slash-form bin command whose argument has a second space in front,
\* and a dot-form gen command with a two-digit bin, both rejected.
C12_Witness ==
    /\ gPc = "done" /\ gReplies = <<Reply("invalid-bin", <<>>)>>
    /\ \/ gCmd = "bin" /\ gForm = "slash" /\ handlerArgs(gForm, gText) = <<" ", "4", "3", "1", "9", "4", "0">>
       \/ gCmd = "gen" /\ gForm = "dot" /\ GenParsed.bin = <<"1", "2">>

-----------------------------------------------------------------------------
(* Claims about the dispatch of the two trigger forms *)

\* C13: the slash form and the dot form of a command are dispatched to the
\* same handler, so both start the same lookups: any two admitted events
\* that carry the same command have reached the same handler, and when
\* both ran past their validations (each wrote the user's record) they
\* started the same number of lookups.
C13_SameHandlerBothForms ==
    \A i, j \in EventIds :
        (/\ events[i].cmd = events[j].cmd
         /\ HandlerInvoked(events[i]) /\ HandlerInvoked(events[j])) =>
            /\ events[i].handler = events[j].handler
            /\ (/\ events[i].pc = "done" /\ events[j].pc = "done"
                /\ events[i].writes = 1 /\ events[j].writes = 1) =>
                   events[i].calls = events[j].calls

\* The commands the help texts list (toolsBlock, lines 516-538, and the
\* help text of handleDotCommand).
AdvertisedCommands ==
    {"start", "help", "ajuda", "gen", "bin", "ip", "cedula", "placa", "mail", "check",
     "favoritos", "agregarbin", "eliminarbin", "historial", "clear", "limpar"}

\* The event passed the duplicate guard and the cooldown.
Admitted(e) == e.pc \in {"handling", "done", "failed"}

\* C14: every advertised command reaches a handler when issued with the
\* slash prefix and when issued with the dot prefix: every admitted event
\* that carries an advertised command has a handler invoked for it.
C14_AdvertisedReachHandler ==
    \A i \in EventIds :
        (Admitted(events[i]) /\ events[i].cmd \in AdvertisedCommands) =>
            HandlerInvoked(events[i])

\* C15: when a handler raises an unclassified error during a slash-form or
\* dot-form command, the user receives a generic failure reply.
C15_HandlerErrorAnswered ==
    \A i \in EventIds : events[i].pc = "failed" => events[i].replies >= 1

-----------------------------------------------------------------------------
(* Claims about the in-flight set *)

KeyOf(e) == commandKey(e.user, e.msg)

\* C16: a key enters processingCommands only in the step that admits its
\* invocation (isCommandAllowed returned true for it): the step appends a
\* slash-form event with this key that starts being handled and records
\* the admission; a step that denies an invocation leaves the set alone.
C16_MarkedOnlyWhenAdmitted ==
    [][\A k \in processingCommands' \ processingCommands :
          /\ Len(events') = Len(events) + 1
          /\ LET e == events'[Len(events')]
             IN  /\ e.form = "slash" /\ KeyOf(e) = k /\ e.pc = "handling"
                 /\ admitted'[e.user] = Append(admitted[e.user], now)]_vars

\* A slash-form invocation was denied by the cooldown and its key is not in
\* the set, while the key of the admitted one is.
C16_Witness ==
    \E i, j \in EventIds :
        /\ events[i].form = "slash" /\ events[i].pc = "handling"
        /\ KeyOf(events[i]) \in processingCommands
        /\ events[j].form = "slash" /\ events[j].pc = "denied"
        /\ KeyOf(events[j]) \notin processingCommands

\* C17: the key of a slash-form invocation stays in processingCommands from
\* its admission until RETENTION_MS after its handler completes, whether
\* the handler returned or threw: completion keeps the key and schedules
\* its removal, a key is removed only when such a timer is due, and a
\* redelivery arriving in between is dropped.
C17_KeyHeldThroughRetention ==
    [][/\ \A i \in EventIds :
            (/\ events[i].form = "slash" /\ events[i].pc = "handling"
             /\ events'[i].pc \in {"done", "failed"}) =>
                /\ KeyOf(events[i]) \in processingCommands'
                /\ [key |-> KeyOf(events[i]), due |-> now + RETENTION_MS, ev |-> i] \in timers'
       /\ \A k \in processingCommands \ processingCommands' :
            \E t \in timers : t.key = k /\ t.due <= now /\ events[t.ev].pc \in {"done", "failed"}
       /\ \A i \in EventIds :
            (/\ events[i].form = "slash" /\ Admitted(events[i])
             /\ \/ events[i].pc = "handling"
                \/ \E t \in timers : t.ev = i /\ now < t.due) =>
                /\ KeyOf(events[i]) \in processingCommands
                /\ (Len(events') = Len(events) + 1 /\ events'[Len(events')].form = "slash"
                    /\ KeyOf(events'[Len(events')]) = KeyOf(events[i])) =>
                       events'[Len(events')].pc = "dropped"]_vars

\* The handler of a slash-form command threw, its key is still held, and a
\* redelivery of the message has been dropped.
C17_Witness ==
    \E i, j \in EventIds :
        /\ i < j /\ events[i].form = "slash" /\ events[i].pc = "failed"
        /\ KeyOf(events[i]) \in processingCommands
        /\ events[j].form = "slash" /\ KeyOf(events[j]) = KeyOf(events[i])
        /\ events[j].pc = "dropped"

-----------------------------------------------------------------------------
(* Claims about the classification of provider answers *)

\* What lookupBin returns when both providers answer 404: its not-found
\* outcome.
BinNotFoundOutcome ==
    afterSecondary([kind |-> "response", status |-> 404, valid |-> TRUE, data |-> EmptyPayload]).result

ParseFailure(r) == r.kind = "response" /\ ok(r) /\ ~r.valid

\* C18, for the BIN lookup: a body that fails to parse as JSON on a
\* successful status yields a failure outcome that is distinguishable from
\* the not-found outcome.
C18_ParseFailureNotNotFound ==
    (lbPc = "done" /\ (ParseFailure(lbResp1) \/ ParseFailure(lbResp2))) =>
        lbResult # BinNotFoundOutcome

-----------------------------------------------------------------------------
(* Claims about the retry loop of the cedula handler *)

Rejected(o) == o.kind \in {"error", "abort"}

\* C19: a network-level failure on the first attempt (a rejection,
\* including the abort of the timeout) is followed by a 700 ms backoff and
\* exactly one more attempt; when the second attempt fails the same way the
\* error propagates and is answered with one failure reply.
C19_NetworkFailureRetriedOnce ==
    (cdPc = "done" /\ Rejected(cdFirst)) =>
        /\ Len(cdLog) = 3
        /\ cdLog[1].op = "request"
        /\ cdLog[2] = Wait(BACKOFF_NETWORK_MS)
        /\ cdLog[3].op = "request"
        /\ Len(cdReplies) = 1
        /\ cdResp = NoCdResponse => cdReplies[1] \in {"timeout", "error"}
        /\ cdResp # NoCdResponse => cdReplies[1] = replyFor(cdResp)

\* Both attempts ended in a rejection, the second one in the abort of the
\* timeout.
C19_Witness ==
    /\ cdPc = "done" /\ cdFirst = CdNetworkError /\ cdResp = NoCdResponse
    /\ cdLog = <<Request(0), Wait(BACKOFF_NETWORK_MS), Request(FETCH_TIMEOUT_MS)>>
    /\ cdReplies = <<"timeout">>

\* C20: for every sequence of provider outcomes one cedula command issues
\* at most 2 requests to the registry, and the handler terminates.
C20_AtMostTwoRequests ==
    /\ [](Requests(cdLog) <= MAX_ATTEMPTS)
    /\ <>(cdPc = "done")

\* A run that used both attempts.
C20_Witness == cdPc = "done" /\ Requests(cdLog) = MAX_ATTEMPTS

-----------------------------------------------------------------------------
(* Claims about the overrides of a gen batch *)

\* C21: in a gen batch every one of the 10 cards carries the overrides of
\* the parsed specification: month as given, year its last two digits, cvv
\* as given; a field with no override keeps the value the generator drew
\* for that card.
C21_OverridesOnEveryCard ==
    (gCmd = "gen" /\ gValid) =>
        LET p == GenParsed
            month == p.month
            year == p.year
            cvv == p.cvv
        IN  /\ Len(gCards) = BATCH_SIZE
            /\ \A i \in 1..Len(gCards) :
                  /\ gCards[i].month = IF truthy(month) THEN month ELSE gDraws[i].month
                  /\ gCards[i].year = IF truthy(year) THEN SubSeq(year, Len(year) - 1, Len(year))
                                      ELSE gDraws[i].year
                  /\ gCards[i].cvv = IF truthy(cvv) THEN cvv ELSE gDraws[i].cvv

\* A batch with month and four-digit year given and the cvv left to the
\* generator, the cards drawing different cvvs.
C21_Witness ==
    /\ gPc = "done" /\ gCmd = "gen" /\ gValid
    /\ GenParsed.month = M05 /\ GenParsed.year = Y2027 /\ GenParsed.cvv = undefined
    /\ gCards[1].month = M05 /\ gCards[1].year = Y27
    /\ gCards[1].cvv # gCards[2].cvv

-----------------------------------------------------------------------------
(* Claims about the cooldown map *)

\* C22: when isCommandAllowed denies a user the cooldown map is left
\* unchanged, for that user and for every other user; when it allows, only
\* that user's entry changes and it becomes the current time.
C22_CooldownMapFrame ==
    [][Len(events') = Len(events) + 1 =>
          LET e == events'[Len(events')]
          IN  /\ e.pc = "denied" => userStates' = userStates
              /\ e.pc = "handling" =>
                    /\ DOMAIN userStates' = DOMAIN userStates \cup {e.user}
                    /\ userStates'[e.user] = now
                    /\ \A x \in DOMAIN userStates \ {e.user} : userStates'[x] = userStates[x]]_vars

\* A user was admitted and, at a later instant within the window, denied:
\* the stored timestamp is still the one of the admission.
C22_Witness ==
    \E i, j \in EventIds :
        /\ i < j /\ events[i].user = events[j].user
        /\ HandlerInvoked(events[i]) /\ events[j].pc = "denied"
        /\ userStates[events[j].user] < now
        /\ admitted[events[j].user] = <<userStates[events[j].user]>>

-----------------------------------------------------------------------------
(* Claims about the separators of parseGenInput *)

SeparatorChars == {"|", " "}

\* The string with the separator at position i replaced by the other one.
flipAt(s, i) == [s EXCEPT ![i] = IF @ = "|" THEN " " ELSE "|"]

SameUnderFlips(s, out) ==
    \A i \in 1..Len(s) : s[i] \in SeparatorChars => parseGenInput(flipAt(s, i)) = out

-----------------------------------------------------------------------------
(* Claims about the persisted record *)

Entries(record) == {record.history[i] : i \in 1..Len(record.history)}

\* The mail command loaded the record, the gen command then wrote its
\* entry, and the mail command saved after that.
MailSavedOverGenWrite ==
    \E i, j, k \in 1..Len(stLog) :
        /\ i < j /\ j < k
        /\ stLog[i] = "mail-load" /\ stLog[j] = "gen-write" /\ stLog[k] = "mail-save"

GenWrote == \E j \in 1..Len(stLog) : stLog[j] = "gen-write"

\* C24: two overlapping commands of the same user can lose an update: when
\* the mail command saves the record it loaded before the gen command wrote
\* its history entry, the saved record does not hold that entry (in every
\* other order the entry stays in the record).
C24_StaleSaveLosesEntry ==
    /\ MailSavedOverGenWrite => genEntry(hBin) \notin Entries(loadUserData(stStore))
    /\ (GenWrote /\ ~MailSavedOverGenWrite) => genEntry(hBin) \in Entries(loadUserData(stStore))

\* Both commands are done, the gen command has replied with its cards, and
\* its history entry is not in the record.
C24_Witness ==
    /\ mPc = "done" /\ hPc = "done" /\ MailSavedOverGenWrite
    /\ stStore # null /\ stStore[1].tempMail # NoMail
    /\ genEntry(hBin) \notin Entries(stStore[1])

-----------------------------------------------------------------------------
(* Claims about the result of lookupBin *)

DefaultOf ==
    [bank |-> "Desconhecido", brand |-> "Desconhecida", type |-> "Desconhecido",
     country |-> "Desconhecido", countryCode |-> "??", level |-> "Desconhecido"]

\* The response of the provider requested last.
LastResponse == IF Len(lbCalls) = 1 THEN lbResp1 ELSE lbResp2

\* C25: lookupBin never raises to its caller; whenever it returns a result,
\* each of bank, brand, type, country, countryCode and level is a value of
\* the payload of the one provider that answered or that field's default
\* literal; a payload without its nested objects still yields a result.
C25_ResultFromOneProvider ==
    /\ lbPc \in {"idle", "fetch1", "fetch2", "done"}
    /\ lbPc = "done" =>
          /\ lbResult # null <=> Succeeded(LastResponse)
          /\ lbResult # null =>
                \A f \in InfoFields :
                    lbResult[1][f] \in PayloadValues(LastResponse.data) \cup {DefaultOf[f]}

\* The primary answered 200 with a payload that has neither bank nor
\* country; the result holds the defaults for them and the scheme given.
C25_Witness ==
    /\ lbPc = "done" /\ lbCalls = <<"binlist.net">> /\ Succeeded(lbResp1)
    /\ lbResp1.data.bankName = Missing /\ lbResp1.data.countryName = Missing
    /\ lbResp1.data.scheme = "p1-scheme"
    /\ lbResult # null
    /\ lbResult[1].bank = "Desconhecido" /\ lbResult[1].countryCode = "??"
    /\ lbResult[1].brand = "p1-scheme"

-----------------------------------------------------------------------------
(* Claims about getCommandArgs *)

RECURSIVE dropToken(_)
dropToken(s) == IF s = <<>> \/ IsSpace(Head(s)) THEN s ELSE dropToken(Tail(s))

\* The text after its first whitespace-delimited token and the whitespace
\* that follows the token.
remainderAfterFirstToken(text) == trimStart(dropToken(text))

\* C26: for a slash-form message getCommandArgs returns exactly the
\* remainder of the text after the first whitespace-delimited token, for
\* any number of separating whitespace characters, so /c<ws>ARGS and
\* .c<ws>ARGS yield the same argument string.
C26_SlashArgsAreRemainder ==
    LET slashText == <<"/">> \o Tail(gText)
        dotText == <<".">> \o Tail(gText)
    IN  gPc = "done" =>
            /\ getCommandArgs(slashText) = remainderAfterFirstToken(slashText)
            /\ getCommandArgs(slashText) = getCommandArgs(dotText)

-----------------------------------------------------------------------------
(* Claims about the expiry of the in-flight set *)

CommandKeys == {commandKey(u, m) : u \in Users, m \in MsgIds}

\* C27: every key added to processingCommands is eventually removed: for
\* every admitted slash-form invocation there is a later state in which its
\* key is no longer in the set.
C27_KeyEventuallyRemoved ==
    \A k \in CommandKeys : (k \in processingCommands) ~> (k \notin processingCommands)

-----------------------------------------------------------------------------
(* Claims about the timeout of a registry request *)

\* C28: each registry request is bounded by the 8000 ms timeout; an attempt
\* aborted by the timer counts as a network-level failure of that attempt
\* only: after an abort of the first attempt the second attempt is still
\* made and its response is classified as usual, and a second timeout is
\* answered with the timeout notice.
C28_TimeoutBoundsEachAttempt ==
    /\ \A i \in 1..Len(cdLog) : cdLog[i].op = "request" => cdLog[i].ms <= FETCH_TIMEOUT_MS
    /\ (cdPc = "done" /\ cdFirst = CdAbort) =>
          /\ Len(cdLog) = 3
          /\ cdLog[1] = Request(FETCH_TIMEOUT_MS)
          /\ cdLog[2] = Wait(BACKOFF_NETWORK_MS)
          /\ cdLog[3].op = "request"
          /\ cdResp # NoCdResponse => cdReplies = <<replyFor(cdResp)>>
          /\ cdLog[3] = Request(FETCH_TIMEOUT_MS) => cdReplies = <<"timeout">>

\* The first attempt was aborted by the timer and the second one brought
\* the registry's data.
C28_Witness ==
    /\ cdPc = "done" /\ cdFirst = CdAbort
    /\ cdResp.kind = "response" /\ cdResp.status = 200
    /\ cdReplies = <<"info">>

\* C29: a cedula command that reached its handler ends with exactly one
\* reply whatever the outcome (usage error, 404, 429, other status >= 400,
\* unparsable body, payload with or without contribuyente, network failure,
\* timeout), and sends none before it ends.
C29_ExactlyOneReply ==
    /\ cdPc = "done" => Len(cdReplies) = 1
    /\ cdPc \in {"start", "fetch", "backoff", "classify"} => cdReplies = <<>>
    /\ cdPc = "done" =>
          cdReplies[1] \in {"usage", "not-found", "overloaded", "error",
                            "unexpected-response", "info", "no-data", "timeout"}

\* The registry answered 200 with a body that is not JSON.
C29_Witness ==
    /\ cdPc = "done"
    /\ cdResp.kind = "response" /\ cdResp.status = 200 /\ ~cdResp.valid
    /\ cdReplies = <<"unexpected-response">>

-----------------------------------------------------------------------------
(* Claims about the favorites *)

\* C30: eliminarbin given the BIN of an entry of the user's favorites removes
\* exactly that entry and keeps the others in their order; given a 1-based
\* index within range it removes exactly the entry at that position.
C30_RemovesByIndexOrBin ==
    fvCmd = "eliminarbin" =>
        LET favorites == loadUserData(fvFile).favorites
        IN  /\ \A i \in 1..Len(fvBefore) :
                  fvBefore[i].bin = fvArgs => favorites = RemoveAt(fvBefore, i)
            /\ (isIndex(fvArgs) /\ parseInt(fvArgs) \in 1..Len(fvBefore)) =>
                  favorites = RemoveAt(fvBefore, parseInt(fvArgs))

\* C31: after any sequence of agregarbin and eliminarbin commands from an
\* empty record no two favorites have the same bin, and an agregarbin that
\* is rejected (invalid bin or duplicate) leaves the persisted record as it
\* was.
C31_FavoritesDistinct ==
    /\ [](LET favorites == loadUserData(fvFile).favorites
          IN  \A i, j \in 1..Len(favorites) : favorites[i].bin = favorites[j].bin => i = j)
    /\ [][(/\ fvCount' = fvCount + 1
           /\ fvCmd' = "agregarbin"
           /\ fvReply'.kind \in {"invalid-bin", "duplicate"}) => fvFile' = fvFile]_vars

\* With two favorites saved, a third agregarbin names the bin of the first
\* one in another spelling and is rejected as a duplicate.
C31_Witness ==
    /\ fvCmd = "agregarbin" /\ fvReply.kind = "duplicate"
    /\ Len(fvBefore) = 2 /\ loadUserData(fvFile).favorites = fvBefore
    /\ fvArgs # fvBefore[1].bin /\ parseGenInput(fvArgs).bin = fvBefore[1].bin

-----------------------------------------------------------------------------
(* Claims about the year of a gen command *)

\* The third field of the arguments as typed.
typedYear ==
    elementAt(split(collapseSpaces(replacePipes(trim(handlerArgs(gForm, gText)))), " "), 3)

CardYears == {<<a, b>> : a \in {"2", "3"}, b \in Digits}

\* C32: the year parseGenInput returns never has exactly 2 characters; a
\* gen command with a year is accepted only if that year is 2020..2039, a
\* two-digit year YY typed with otherwise valid fields is accepted exactly
\* when 20 <= YY <= 39, and every card of an accepted command with a year
\* has a year "20".."39".
C32_YearNeverTwoChars ==
    (gCmd = "gen" /\ gPc # "start") =>
        LET p == GenParsed
            y == typedYear
        IN  /\ truthy(p.year) => Len(p.year) # 2
            /\ (gValid /\ truthy(p.year)) =>
                  /\ isYear202x(p.year)
                  /\ \A i \in 1..Len(gCards) : gCards[i].year \in CardYears
            /\ (/\ truthy(y) /\ Len(y) = 2 /\ AllDigits(y)
                /\ validationError([p EXCEPT !.year = undefined]) = "") =>
                  (gValid <=> parseInt(y) \in 20..39)

\* The year typed is 39: the parser made it 2039, the command was accepted
\* and the cards carry 39.
C32_Witness ==
    /\ gCmd = "gen" /\ gPc = "done" /\ gValid
    /\ typedYear = <<"3", "9">>
    /\ GenParsed.year = <<"2", "0", "3", "9">>
    /\ Len(gCards) = BATCH_SIZE /\ gCards[1].year = <<"3", "9">>

-----------------------------------------------------------------------------
(* Claims about the middleware chain *)

\* C33: each text event runs the cooldown check at most once along the
\* chain of middlewares: a slash-form event is checked by the first
\* middleware only, a dot-form event by the text middleware only, and an
\* event dropped as a duplicate is not checked at all; so an event is denied
\* only when it arrived within the window of an earlier admission of its
\* user, never because of its own admission further up the chain.
C33_CooldownCheckedOnce ==
    \A i \in 1..Len(events) :
        LET e == events[i]
        IN  /\ e.checks <= 1
            /\ e.pc = "dropped" <=> e.checks = 0
            /\ e.pc = "denied" => e.inWindow

\* A slash-form and a dot-form command were both checked once, admitted and
\* handled.
C33_Witness ==
    \E i, j \in 1..Len(events) :
        /\ events[i].form = "slash" /\ events[i].pc = "done" /\ events[i].checks = 1
        /\ events[j].form = "dot" /\ events[j].pc = "done" /\ events[j].checks = 1
        /\ events[i].user = events[j].user

\* C34: a slash-form delivery dropped as a duplicate leaves the cooldown
\* map and the in-flight set unchanged; a dot-form event, admitted or
\* denied, is never dropped, and neither its delivery nor the completion of
\* its handler changes the in-flight set or schedules a removal.
C34_DropAndDotFrame ==
    [][/\ Len(events') = Len(events) + 1 =>
             LET e == events'[Len(events')]
             IN  /\ e.pc = "dropped" =>
                       userStates' = userStates /\ processingCommands' = processingCommands
                 /\ e.form = "dot" =>
                       /\ e.pc \in {"handling", "denied"}
                       /\ processingCommands' = processingCommands /\ timers' = timers
       /\ \A i \in 1..Len(events) :
             (events[i].form = "dot" /\ events'[i] # events[i]) =>
                 processingCommands' = processingCommands /\ timers' = timers]_vars

\* A slash-form message is delivered again, at a time when the cooldown of
\* its user is over, while its key is in the in-flight set: it is dropped
\* and the stored timestamp is still the one of the first delivery.
C34_Witness ==
    /\ Len(events) = 2
    /\ events[1].form = "slash" /\ events[2].form = "slash" /\ events[2].pc = "dropped"
    /\ events[1].user = events[2].user /\ events[1].msg = events[2].msg
    /\ commandKey(events[2].user, events[2].msg) \in processingCommands
    /\ now - userStates[events[2].user] >= COOLDOWN_PERIOD

-----------------------------------------------------------------------------
(* Claims about the eviction timers *)

RunningFor(k) ==
    {i \in 1..Len(events) :
        /\ events[i].form = "slash" /\ events[i].pc = "handling"
        /\ commandKey(events[i].user, events[i].msg) = k}

TimersFor(k) == {t \in timers : t.key = k}

\* C35: every key of the in-flight set has either one handler running for
\* it or one pending eviction timer, never both and never two of either,
\* and every pending timer is for a key of the set; hence a timer never
\* removes a key for which a handler is running.
C35_HandlerOrOneTimer ==
    /\ [](/\ \A k \in processingCommands :
                Cardinality(RunningFor(k)) + Cardinality(TimersFor(k)) = 1
          /\ \A t \in timers : t.key \in processingCommands)
    /\ [][\A k \in processingCommands \ processingCommands' : RunningFor(k) = {}]_vars

\* The timer of the first invocation has fired and removed the key; the
\* same message, delivered again, was admitted and its handler runs with
\* no timer pending.
C35_Witness ==
    /\ Len(events) = 2
    /\ events[1].form = "slash" /\ events[1].pc \in {"done", "failed"}
    /\ events[2].form = "slash" /\ events[2].pc = "handling"
    /\ events[1].user = events[2].user /\ events[1].msg = events[2].msg
    /\ processingCommands = {commandKey(events[2].user, events[2].msg)}
    /\ timers = {}

====
